---- MODULE Spec2Model ----
(***************************************************************************)
(* Competitive rank history aggregator of valo_mmr.py: the catalogs        *)
(* (TIER_MAP, SEASON_MAP), season_short, get_tier_name and the scans of    *)
(* map_mmr_to_henrik, as a state machine over the function's local         *)
(* variables.                                                              *)
(*                                                                         *)
(* A Python str is a sequence of one-character strings, so that slicing,   *)
(* startswith, split, lower, int() and string comparison are computed as   *)
(* Python computes them.  The character set is ASCII letters, digits and   *)
(* " ", "+", "-", "_".                                                     *)
(***************************************************************************)
EXTENDS Integers, Sequences, FiniteSets, TLC

\* Largest number of seasons in a rating record.
MaxSeasons == 2

(***************************************************************************)
(* Python str primitives                                                   *)
(***************************************************************************)

\* The characters in code point order (ord(" ") < ord("+") < ... < ord("z")).
CodePoints ==
  << " ", "+", "-",
     "0", "1", "2", "3", "4", "5", "6", "7", "8", "9",
     "A", "B", "C", "D", "E", "F", "G", "H", "I", "J", "K", "L", "M",
     "N", "O", "P", "Q", "R", "S", "T", "U", "V", "W", "X", "Y", "Z",
     "_",
     "a", "b", "c", "d", "e", "f", "g", "h", "i", "j", "k", "l", "m",
     "n", "o", "p", "q", "r", "s", "t", "u", "v", "w", "x", "y", "z" >>

\* ord(c), as the position of c in CodePoints
OrdTable ==
  [c \in { CodePoints[k] : k \in 1..Len(CodePoints) } |->
     CHOOSE k \in 1..Len(CodePoints) : CodePoints[k] = c]

Ord(c) == OrdTable[c]

DigitChars == {"0", "1", "2", "3", "4", "5", "6", "7", "8", "9"}

DigitVal(c) == Ord(c) - Ord("0")

\* str.lower() on one character: "A".."Z" are 13 code points before "_",
\* "a".."z" right after it.
LowerChar(c) ==
  IF Ord(c) >= Ord("A") /\ Ord(c) <= Ord("Z")
  THEN CodePoints[Ord(c) + 27]
  ELSE c

\* s.lower()
lower(s) == [i \in 1..Len(s) |-> LowerChar(s[i])]

\* s[:n]
Prefix(s, n) == SubSeq(s, 1, IF Len(s) < n THEN Len(s) ELSE n)

\* s[n:]  (n >= 0)
Suffix(s, n) == SubSeq(s, n + 1, Len(s))

\* s.startswith(c) for a one-character c
startswith(s, c) == Len(s) >= 1 /\ s[1] = c

\* s.split(c) for a one-character separator c: always at least one part.
RECURSIVE split(_, _)
split(s, c) ==
  IF \A i \in 1..Len(s) : s[i] # c
  THEN << s >>
  ELSE LET i == CHOOSE j \in 1..Len(s) :
                  s[j] = c /\ \A k \in 1..(j - 1) : s[k] # c
       IN  << SubSeq(s, 1, i - 1) >> \o split(Suffix(s, i), c)

\* s.strip() for the one whitespace character of the character set
RECURSIVE strip(_)
strip(s) ==
  IF s = << >> THEN s
  ELSE IF s[1] = " " THEN strip(Tail(s))
  ELSE IF s[Len(s)] = " " THEN strip(SubSeq(s, 1, Len(s) - 1))
  ELSE s

\* The digits part of an int() literal: digits, single underscores between them.
IsDigits(d) ==
  /\ Len(d) >= 1
  /\ \A i \in 1..Len(d) : d[i] \in DigitChars \cup {"_"}
  /\ d[1] # "_" /\ d[Len(d)] # "_"
  /\ \A i \in 1..(Len(d) - 1) : ~(d[i] = "_" /\ d[i + 1] = "_")

HasSign(s) == Len(s) >= 1 /\ s[1] \in {"+", "-"}

Unsigned(s) == IF HasSign(s) THEN Tail(s) ELSE s

\* int(s) does not raise ValueError
IsInt(s) == IsDigits(Unsigned(strip(s)))

RECURSIVE DigitsVal(_, _)
DigitsVal(d, acc) ==
  IF d = << >> THEN acc
  ELSE IF d[1] = "_" THEN DigitsVal(Tail(d), acc)
  ELSE DigitsVal(Tail(d), 10 * acc + DigitVal(d[1]))

\* int(s), for IsInt(s)
int(s) ==
  LET t == strip(s)
  IN  IF startswith(t, "-") THEN 0 - DigitsVal(Unsigned(t), 0)
      ELSE DigitsVal(Unsigned(t), 0)

\* a < b for str a, b (lexicographic by code point)
RECURSIVE StrLess(_, _)
StrLess(a, b) ==
  IF b = << >> THEN FALSE
  ELSE IF a = << >> THEN TRUE
  ELSE IF a[1] = b[1] THEN StrLess(Tail(a), Tail(b))
  ELSE Ord(a[1]) < Ord(b[1])

\* dict.get(k, default)
Get(d, k, default) == IF k \in DOMAIN d THEN d[k] ELSE default

(***************************************************************************)
(* Tier Catalog and Season Catalog                                         *)
(***************************************************************************)

TIER_MAP ==
  (0 :> "Unrated") @@ (1 :> "Unused") @@ (2 :> "Unused")
  @@ (3 :> "Iron 1") @@ (4 :> "Iron 2") @@ (5 :> "Iron 3")
  @@ (6 :> "Bronze 1") @@ (7 :> "Bronze 2") @@ (8 :> "Bronze 3")
  @@ (9 :> "Silver 1") @@ (10 :> "Silver 2") @@ (11 :> "Silver 3")
  @@ (12 :> "Gold 1") @@ (13 :> "Gold 2") @@ (14 :> "Gold 3")
  @@ (15 :> "Platinum 1") @@ (16 :> "Platinum 2") @@ (17 :> "Platinum 3")
  @@ (18 :> "Diamond 1") @@ (19 :> "Diamond 2") @@ (20 :> "Diamond 3")
  @@ (21 :> "Ascendant 1") @@ (22 :> "Ascendant 2") @@ (23 :> "Ascendant 3")
  @@ (24 :> "Immortal 1") @@ (25 :> "Immortal 2") @@ (26 :> "Immortal 3")
  @@ (27 :> "Radiant")

\* TIER_MAP.get(tier_id, "Unknown")
TierMapGet(tier_id) == Get(TIER_MAP, tier_id, "Unknown")

\* get_tier_name without the historical mapping: the current table for every
\* season.
get_tier_name_current_only(tier_id, season_short_str) == TierMapGet(tier_id)

\* get_tier_name without "except (ValueError, IndexError)": the ValueError of
\* int(parts[0]) reaches the caller.
get_tier_name_unguarded(tier_id, season_short_str) ==
  LET name == TierMapGet(tier_id)
  IN  IF season_short_str # << >> /\ startswith(season_short_str, "e")
      THEN LET parts == split(Suffix(season_short_str, 1), "a")
           IN  IF ~IsInt(parts[1]) THEN "ValueError"
               ELSE IF int(parts[1]) < 5
               THEN CASE tier_id = 21 -> "Immortal 1"
                      [] tier_id = 22 -> "Immortal 2"
                      [] tier_id = 23 -> "Immortal 3"
                      [] tier_id = 24 -> "Radiant"
                      [] OTHER -> name
               ELSE name
      ELSE name

get_tier_name(tier_id, season_short_str) ==
  LET name == TierMapGet(tier_id)
  IN  IF season_short_str # << >> /\ startswith(season_short_str, "e")
      THEN LET parts == split(Suffix(season_short_str, 1), "a")
           IN  IF Len(parts) >= 1 /\ IsInt(parts[1]) /\ int(parts[1]) < 5
               THEN CASE tier_id = 21 -> "Immortal 1"
                      [] tier_id = 22 -> "Immortal 2"
                      [] tier_id = 23 -> "Immortal 3"
                      [] tier_id = 24 -> "Radiant"
                      [] OTHER -> name
               ELSE name
      ELSE name

\* A season identifier is written as the first group of its UUID (eight
\* characters): the groups are pairwise distinct over the catalogs, and the code
\* reads an identifier's first four characters, its equality with a key and its
\* order.
SEASON_MAP ==
     (<< "0", "5", "3", "0", "b", "9", "c", "4" >> :> << "e", "1", "a", "2" >>)
  @@ (<< "4", "6", "e", "a", "6", "1", "6", "6" >> :> << "e", "1", "a", "3" >>)
  @@ (<< "9", "7", "b", "6", "e", "7", "3", "9" >> :> << "e", "2", "a", "1" >>)
  @@ (<< "a", "b", "5", "7", "e", "f", "5", "1" >> :> << "e", "2", "a", "2" >>)
  @@ (<< "5", "2", "e", "9", "7", "4", "9", "a" >> :> << "e", "2", "a", "3" >>)
  @@ (<< "1", "6", "1", "1", "8", "9", "9", "8" >> :> << "e", "3", "a", "1" >>)
  @@ (<< "4", "c", "b", "6", "2", "2", "e", "1" >> :> << "e", "3", "a", "2" >>)
  @@ (<< "a", "1", "6", "9", "5", "5", "a", "5" >> :> << "e", "3", "a", "3" >>)
  @@ (<< "5", "7", "3", "f", "5", "3", "a", "c" >> :> << "e", "4", "a", "1" >>)
  @@ (<< "d", "9", "2", "9", "b", "c", "3", "8" >> :> << "e", "4", "a", "2" >>)
  @@ (<< "3", "e", "4", "7", "2", "3", "0", "a" >> :> << "e", "4", "a", "3" >>)
  @@ (<< "6", "7", "e", "3", "7", "3", "c", "7" >> :> << "e", "5", "a", "1" >>)
  @@ (<< "7", "a", "8", "5", "d", "e", "9", "a" >> :> << "e", "5", "a", "2" >>)
  @@ (<< "a", "c", "a", "2", "9", "5", "9", "5" >> :> << "e", "5", "a", "3" >>)
  @@ (<< "9", "c", "9", "1", "a", "4", "4", "5" >> :> << "e", "6", "a", "1" >>)
  @@ (<< "3", "4", "0", "9", "3", "c", "2", "9" >> :> << "e", "6", "a", "2" >>)
  @@ (<< "2", "d", "e", "5", "4", "2", "3", "b" >> :> << "e", "6", "a", "3" >>)
  @@ (<< "4", "d", "4", "c", "e", "8", "5", "a" >> :> << "e", "7", "a", "1" >>)
  @@ (<< "0", "3", "d", "f", "d", "0", "0", "4" >> :> << "e", "7", "a", "2" >>)
  @@ (<< "4", "4", "0", "1", "f", "9", "f", "d" >> :> << "e", "7", "a", "3" >>)
  @@ (<< "2", "2", "d", "1", "0", "d", "6", "6" >> :> << "e", "8", "a", "1" >>)
  @@ (<< "2", "9", "2", "f", "5", "8", "d", "b" >> :> << "e", "8", "a", "2" >>)
  @@ (<< "4", "5", "3", "9", "c", "a", "c", "3" >> :> << "e", "8", "a", "3" >>)
  @@ (<< "4", "7", "6", "b", "0", "8", "9", "3" >> :> << "e", "9", "a", "1" >>)
  @@ (<< "4", "c", "4", "b", "8", "c", "f", "f" >> :> << "e", "9", "a", "2" >>)
  @@ (<< "d", "c", "d", "e", "7", "3", "4", "6" >> :> << "e", "9", "a", "3" >>)
  @@ (<< "4", "7", "6", "b", "9", "2", "e", "4" >> :> << "e", "1", "0", "a", "1" >>)
  @@ (<< "1", "6", "1", "1", "c", "b", "e", "b" >> :> << "e", "1", "0", "a", "2" >>)
  @@ (<< "a", "e", "f", "2", "3", "7", "a", "0" >> :> << "e", "1", "0", "a", "3" >>)
  @@ (<< "a", "c", "1", "2", "e", "9", "b", "3" >> :> << "e", "1", "0", "a", "4" >>)
  @@ (<< "5", "a", "d", "c", "3", "3", "f", "a" >> :> << "e", "1", "0", "a", "5" >>)
  @@ (<< "4", "c", "4", "b", "f", "0", "0", "b" >> :> << "e", "1", "0", "a", "6" >>)
  @@ (<< "e", "c", "8", "7", "6", "e", "6", "c" >> :> << "e", "1", "0", "a", "7" >>)

\* The str "unknown"
Unknown == << "u", "n", "k", "n", "o", "w", "n" >>

\* SEASON_MAP.get(season_id, season_id[:4].lower() if season_id else "unknown")
season_short(season_id) ==
  IF season_id \in DOMAIN SEASON_MAP THEN SEASON_MAP[season_id]
  ELSE IF season_id # << >> THEN lower(Prefix(season_id, 4))
  ELSE Unknown

(***************************************************************************)
(* Inputs of map_mmr_to_henrik                                             *)
(***************************************************************************)

\* "0530b9c4-..." (in SEASON_MAP as e1a2)
E1A2 ==
  << "0", "5", "3", "0", "b", "9", "c", "4" >>

\* "dcde7346-..." (in SEASON_MAP as e9a3)
E9A3 ==
  << "d", "c", "d", "e", "7", "3", "4", "6" >>

\* "476b92e4-..." (in SEASON_MAP as e10a1)
E10A1 ==
  << "4", "7", "6", "b", "9", "2", "e", "4" >>

\* "3f61c772-..." (not in SEASON_MAP; placeholder 3f61)
NotMapped ==
  << "3", "f", "6", "1", "c", "7", "7", "2" >>

\* "e1a2b3c4-..." (not in SEASON_MAP; placeholder e1a2)
NotMappedE1A2 ==
  << "e", "1", "a", "2", "b", "3", "c", "4" >>

\* "ee21c0de-..." (not in SEASON_MAP; placeholder ee21)
NotMappedEE21 ==
  << "e", "e", "2", "1", "c", "0", "d", "e" >>

SeasonIDs == {E1A2, E9A3, E10A1, NotMapped, NotMappedE1A2, NotMappedEE21}

\* One season's entry of SeasonalInfoBySeasonID.  WinsByTier is a JSON object:
\* tier id as a str key, win count as value.  The first entry has no WinsByTier
\* key, the second an empty one, the fifth a tier key with a win count of 0.
SeasonInfos ==
  { [RankedRating |-> 40, CompetitiveTier |-> 24, LeaderboardRank |-> 7,
     NumberOfWins |-> 0, NumberOfGames |-> 3],
    [WinsByTier |-> << >>,
     RankedRating |-> 40, CompetitiveTier |-> 0, LeaderboardRank |-> 0,
     NumberOfWins |-> 0, NumberOfGames |-> 1],
    [WinsByTier |-> (<< "0" >> :> 1),
     RankedRating |-> 0, CompetitiveTier |-> 0, LeaderboardRank |-> 0,
     NumberOfWins |-> 1, NumberOfGames |-> 2],
    [WinsByTier |-> (<< "1", "5" >> :> 2),
     RankedRating |-> 40, CompetitiveTier |-> 15, LeaderboardRank |-> 0,
     NumberOfWins |-> 2, NumberOfGames |-> 5],
    [WinsByTier |-> (<< "1", "5" >> :> 1) @@ (<< "2", "1" >> :> 0),
     RankedRating |-> 0, CompetitiveTier |-> 15, LeaderboardRank |-> 0,
     NumberOfWins |-> 1, NumberOfGames |-> 4],
    [WinsByTier |-> (<< "2", "1" >> :> 1),
     RankedRating |-> 0, CompetitiveTier |-> 21, LeaderboardRank |-> 0,
     NumberOfWins |-> 1, NumberOfGames |-> 1],
    [WinsByTier |-> (<< "1", "5" >> :> 1) @@ (<< "2", "1" >> :> 2),
     RankedRating |-> 40, CompetitiveTier |-> 21, LeaderboardRank |-> 3,
     NumberOfWins |-> 3, NumberOfGames |-> 6] }

\* A dict in insertion order: a sequence of <<key, value>> with distinct keys.
Dicts(K, V, n) ==
  { d \in UNION { [1..m -> K \X V] : m \in 0..n } :
      \A j, k \in 1..Len(d) : j # k => d[j][1] # d[k][1] }

\* The rating records: SeasonalInfoBySeasonID of at most MaxSeasons seasons.
RatingRecords == Dicts(SeasonIDs, SeasonInfos, MaxSeasons)

\* The match-update list: two matches of season e9a3, the later one first.
MatchUpdates ==
  << [SeasonID |-> E9A3, MatchStartTime |-> 1700],
     [SeasonID |-> E9A3, MatchStartTime |-> 1600] >>

\* mmr["LatestCompetitiveUpdate"]
LatestCompetitiveUpdate ==
  [SeasonID |-> E9A3, TierAfterUpdate |-> 16, RankedRatingAfterUpdate |-> 12,
   RankedRatingEarned |-> 18, AFKPenalty |-> 0, MatchStartTime |-> 1700]

(***************************************************************************)
(* map_mmr_to_henrik                                                       *)
(***************************************************************************)

VARIABLES
  seasonal,                   \* SeasonalInfoBySeasonID, in iteration order
  updates,                    \* the match-update list
  latest_competitive_update,  \* mmr.get("LatestCompetitiveUpdate") or {}
  pc,                         \* "peak", "seasonal", "done" or "raised"
  i,                          \* position of the running for loop
  peak_tier, peak_rr, peak_season_id,
  current_season_id, current_tier, current_rr, current_data, current_elo,
  sorted_seasons,             \* sorted(seasonal.keys(), key=sort_key_season)
  seasonal_list,
  output,
  call_tier_id,               \* the arguments of a call of get_tier_name
  call_season_short,
  call_name,                  \* what that call returns
  act_id,                     \* get_valo_mmr.map_mmr_to_henrik's argument
  is_current_act,             \* and its local
  env,                        \* what the services answer to a workflow
  calls,                      \* the requests a workflow has issued so far
  result,                     \* what a workflow returned
  start,                      \* get_competitive_updates' locals
  all_matches,
  elapsed,                    \* instalock: time.time() - start_time
  pregame_match_id,
  clock,                      \* datetime.now(UTC), in milliseconds
  reports,                    \* the reports of successive invocations
  owned_items                 \* get_owned_items_data's local

\* The variables of the workflows around the reports
io_vars ==
  << env, calls, result, start, all_matches, elapsed, pregame_match_id,
     clock, reports, owned_items >>

\* The variables map_mmr_to_henrik of valo_mmr.py does not have
other_vars ==
  << call_tier_id, call_season_short, call_name, act_id, is_current_act,
     io_vars >>

vars ==
  << seasonal, updates, latest_competitive_update, pc, i,
     peak_tier, peak_rr, peak_season_id,
     current_season_id, current_tier, current_rr, current_data, current_elo,
     sorted_seasons, seasonal_list, output, other_vars >>

\* Python None, where a str is expected
None == << "None" >>

\* No workflow is running
IoIdle ==
  /\ env = << >>
  /\ calls = << >>
  /\ result = << >>
  /\ start = 0
  /\ all_matches = << >>
  /\ elapsed = 0
  /\ pregame_match_id = None
  /\ clock = 0
  /\ reports = << >>
  /\ owned_items = << >>

\* x or ""
OrEmpty(x) == IF x = None THEN << >> ELSE x

\* seasonal.keys()
Keys(d) == [k \in 1..Len(d) |-> d[k][1]]

\* seasonal[sid]
Item(d, sid) == d[CHOOSE k \in 1..Len(d) : d[k][1] = sid][2]

\* max(S) of a non-empty set of integers
Max(S) == CHOOSE m \in S : \A n \in S : n <= m

\* to_iso: the wall clock's reading, datetime.now(UTC), for a falsy timestamp,
\* else the timestamp's instant
to_iso(ts_ms) ==
  IF ts_ms = 0 THEN [now |-> TRUE, ms |-> clock]
  ELSE [now |-> FALSE, ms |-> ts_ms]

\* max((int(t) for t in wins_by_tier.keys()), default=0)
max_tier_in_season(wins_by_tier) ==
  IF DOMAIN wins_by_tier = {} THEN 0
  ELSE Max({ int(t) : t \in DOMAIN wins_by_tier })

\* the act_wins entries of tier id t: one per win counted under a key equal to t
RECURSIVE WinsAt(_, _, _)
WinsAt(wins_by_tier, keys, t) ==
  IF keys = {} THEN 0
  ELSE LET k == CHOOSE x \in keys : TRUE
           c == IF int(k) = t /\ wins_by_tier[k] > 0 THEN wins_by_tier[k] ELSE 0
       IN  c + WinsAt(wins_by_tier, keys \ {k}, t)

\* act_wins after act_wins.sort(key=id, reverse=True), for the tier ids in `ids`
RECURSIVE ActWinsOf(_, _, _)
ActWinsOf(wins_by_tier, ids, season_short_str) ==
  IF ids = {} THEN << >>
  ELSE LET t == Max(ids)
           n == WinsAt(wins_by_tier, DOMAIN wins_by_tier, t)
       IN  [k \in 1..n |-> [id |-> t, name |-> get_tier_name(t, season_short_str)]]
           \o ActWinsOf(wins_by_tier, ids \ {t}, season_short_str)

\* act_wins with one entry per tier key, whatever its win count
RECURSIVE OncePerTier(_, _)
OncePerTier(ids, season_short_str) ==
  IF ids = {} THEN << >>
  ELSE << [id |-> Max(ids), name |-> get_tier_name(Max(ids), season_short_str)] >>
       \o OncePerTier(ids \ {Max(ids)}, season_short_str)

build_act_wins_once(wins_by_tier, season_short_str) ==
  OncePerTier({ int(t) : t \in DOMAIN wins_by_tier }, season_short_str)

build_act_wins(wins_by_tier, season_short_str) ==
  IF DOMAIN wins_by_tier = {} THEN << >>
  ELSE ActWinsOf(wins_by_tier, { int(t) : t \in DOMAIN wins_by_tier },
                 season_short_str)

get_ranking_schema(season_id) ==
  LET short == season_short(season_id)
  IN  IF short # << >> /\ startswith(short, "e")
      THEN LET ep_str == split(Suffix(short, 1), "a")[1]
           IN  IF IsInt(ep_str) /\ int(ep_str) >= 5 THEN "ascendant" ELSE "base"
      ELSE "base"

\* The try block of sort_key_season returns (ep, act) for this short code
ParsesEpisodeAct(short) ==
  /\ startswith(short, "e")
  /\ LET parts == split(Suffix(short, 1), "a")
     IN  Len(parts) = 2 /\ IsInt(parts[1]) /\ IsInt(parts[2])

\* (ep, act) of a short code that parses
EpisodeAct(short) ==
  LET parts == split(Suffix(short, 1), "a")
  IN  << int(parts[1]), int(parts[2]) >>

sort_key_season(sid) ==
  LET short == season_short(sid)
  IN  IF ParsesEpisodeAct(short) THEN EpisodeAct(short) ELSE << 999, 999 >>

\* a < b for tuples of two integers
TupleLess(a, b) == a[1] < b[1] \/ (a[1] = b[1] /\ a[2] < b[2])

\* sorted() computes each key once and is stable: x, with its key, goes after
\* every element whose key is not greater.
InsertByKey(r, x) ==
  LET p == Cardinality({ j \in 1..Len(r) : ~TupleLess(x[1], r[j][1]) })
  IN  SubSeq(r, 1, p) \o << x >> \o SubSeq(r, p + 1, Len(r))

RECURSIVE SortedByKey(_)
SortedByKey(s) ==
  IF s = << >> THEN << >>
  ELSE InsertByKey(SortedByKey(SubSeq(s, 1, Len(s) - 1)), s[Len(s)])

\* sorted(seasonal.keys(), key=sort_key_season)
sorted_by_season(d) ==
  LET keyed == SortedByKey([k \in 1..Len(d) |-> << sort_key_season(d[k][1]), d[k][1] >>])
  IN  [k \in 1..Len(d) |-> keyed[k][2]]

\* sorted(seasonal.keys())[-1]: the greatest key as a str
last_sorted(d) ==
  CHOOSE sid \in { d[k][1] : k \in 1..Len(d) } :
    \A k \in 1..Len(d) : ~StrLess(sid, d[k][1])

\* int(t) raises ValueError for no key of wins_by_tier
IntKeys(wins_by_tier) == \A t \in DOMAIN wins_by_tier : IsInt(t)

\* The peak scan without "if wins_by_tier:": a season with no wins is scanned
\* with the default maximum 0.
peak_scan_unguarded(peak, sid, data) ==
  LET wins_by_tier == Get(data, "WinsByTier", << >>)
      end_rr == Get(data, "RankedRating", 0)
  IN  IF max_tier_in_season(wins_by_tier) > peak.tier
      THEN [tier |-> max_tier_in_season(wins_by_tier),
            rr |-> end_rr, season_id |-> sid]
      ELSE IF max_tier_in_season(wins_by_tier) = peak.tier /\ end_rr > peak.rr
           THEN [tier |-> peak.tier, rr |-> end_rr, season_id |-> sid]
           ELSE peak

\* The peak scan's state before the first season
PeakStart == [tier |-> 0, rr |-> 0, season_id |-> None]

\* The body of "for sid, data in seasonal.items()": the scan's state after
\* visiting season sid, from its state `peak` before.
peak_scan(peak, sid, data) ==
  LET wins_by_tier == Get(data, "WinsByTier", << >>)
      end_rr == Get(data, "RankedRating", 0)
  IN  IF DOMAIN wins_by_tier # {}
      THEN IF max_tier_in_season(wins_by_tier) > peak.tier
           THEN [tier |-> max_tier_in_season(wins_by_tier),
                 rr |-> end_rr, season_id |-> sid]
           ELSE IF max_tier_in_season(wins_by_tier) = peak.tier /\ end_rr > peak.rr
                THEN [tier |-> peak.tier, rr |-> end_rr, season_id |-> sid]
                ELSE peak
      ELSE peak

\* The scan's state after visiting the seasons of d in d's order
RECURSIVE PeakOf(_)
PeakOf(d) ==
  IF d = << >> THEN PeakStart
  ELSE peak_scan(PeakOf(SubSeq(d, 1, Len(d) - 1)), d[Len(d)][1], d[Len(d)][2])

\* The arguments and the locals at the first line of map_mmr_to_henrik
InitWith(records, update_lists, latest_updates) ==
  /\ seasonal \in records
  /\ updates \in update_lists
  /\ latest_competitive_update \in latest_updates
  /\ pc = "peak"
  /\ i = 1
  /\ peak_tier = PeakStart.tier
  /\ peak_rr = PeakStart.rr
  /\ peak_season_id = PeakStart.season_id
  /\ current_season_id = None
  /\ current_tier = 0
  /\ current_rr = 0
  /\ current_data = << >>
  /\ current_elo = 0
  /\ sorted_seasons = << >>
  /\ seasonal_list = << >>
  /\ output = << >>
  /\ call_tier_id = 0
  /\ call_season_short = << >>
  /\ call_name = ""
  /\ act_id = << >>
  /\ is_current_act = FALSE
  /\ IoIdle

Init == InitWith(RatingRecords, {MatchUpdates}, {LatestCompetitiveUpdate})

\* One iteration of the peak scan; int(t) of a key that is no integer raises.
PeakScan ==
  /\ pc = "peak"
  /\ i <= Len(seasonal)
  /\ IF IntKeys(Get(seasonal[i][2], "WinsByTier", << >>))
     THEN LET peak == peak_scan([tier |-> peak_tier, rr |-> peak_rr,
                                 season_id |-> peak_season_id],
                                seasonal[i][1], seasonal[i][2])
          IN  /\ peak_tier' = peak.tier
              /\ peak_rr' = peak.rr
              /\ peak_season_id' = peak.season_id
              /\ i' = i + 1
              /\ pc' = pc
     ELSE /\ pc' = "raised"
          /\ UNCHANGED << i, peak_tier, peak_rr, peak_season_id >>
  /\ UNCHANGED other_vars
  /\ UNCHANGED << seasonal, updates, latest_competitive_update,
                  current_season_id, current_tier, current_rr, current_data,
                  current_elo, sorted_seasons, seasonal_list, output >>

\* (tier - 3) * 100 + rr, without "% 100" and without "if current_tier >= 3"
elo_unclamped(tier, rr) == ((tier - 3) * 100) + rr

\* ((current_tier - 3) * 100) + (current_rr % 100) if current_tier >= 3 else 0
elo(tier, rr) == IF tier >= 3 THEN ((tier - 3) * 100) + (rr % 100) ELSE 0

\* current_season_id, current_data, current_tier and current_rr after
\* "if seasonal:", for the record d
CurrentOf(d) ==
  IF Len(d) > 0
  THEN [season_id |-> last_sorted(d),
        data |-> Item(d, last_sorted(d)),
        tier |-> Get(Item(d, last_sorted(d)), "CompetitiveTier", 0),
        rr |-> Get(Item(d, last_sorted(d)), "RankedRating", 0)]
  ELSE [season_id |-> None, data |-> << >>, tier |-> 0, rr |-> 0]

\* After the peak scan: the current season, tier, rating and ELO.
Current ==
  /\ pc = "peak"
  /\ i > Len(seasonal)
  /\ current_season_id' = CurrentOf(seasonal).season_id
  /\ current_data' = CurrentOf(seasonal).data
  /\ current_tier' = CurrentOf(seasonal).tier
  /\ current_rr' = CurrentOf(seasonal).rr
  /\ current_elo' = elo(current_tier', current_rr')
  /\ sorted_seasons' = sorted_by_season(seasonal)
  /\ pc' = "seasonal"
  /\ i' = 1
  /\ UNCHANGED other_vars
  /\ UNCHANGED << seasonal, updates, latest_competitive_update,
                  peak_tier, peak_rr, peak_season_id, seasonal_list, output >>

\* "if not short.startswith("e"): continue"
SeasonalSkip ==
  /\ pc = "seasonal"
  /\ i <= Len(sorted_seasons)
  /\ ~startswith(season_short(sorted_seasons[i]), "e")
  /\ i' = i + 1
  /\ UNCHANGED other_vars
  /\ UNCHANGED << seasonal, updates, latest_competitive_update, pc,
                  peak_tier, peak_rr, peak_season_id,
                  current_season_id, current_tier, current_rr, current_data,
                  current_elo, sorted_seasons, seasonal_list, output >>

\* The whole match-update list, without the filter on SeasonID
season_updates_unfiltered(us, sid) == us

\* [u for u in us if u.get("SeasonID") == sid]
season_updates(us, sid) ==
  LET OfSeason(u) == Get(u, "SeasonID", None) = sid
  IN  SelectSeq(us, OfSeason)

\* max() scanning the rest of a list, m being the greatest item so far
RECURSIVE MaxFrom(_, _)
MaxFrom(values, m) ==
  IF values = << >> THEN m
  ELSE MaxFrom(Tail(values), IF Head(values) > m THEN Head(values) ELSE m)

\* max(values, default=default)
max_default(values, default) ==
  IF values = << >> THEN default ELSE MaxFrom(Tail(values), Head(values))

\* The time of the first update of the season in the list, as if the list were
\* sorted latest first.
first_time_in(us, sid) ==
  IF season_updates(us, sid) = << >> THEN 0
  ELSE Get(season_updates(us, sid)[1], "MatchStartTime", 0)

\* max([u.get("MatchStartTime", 0) for u in season_updates], default=0)
latest_time_in(us, sid) ==
  max_default([k \in 1..Len(season_updates(us, sid)) |->
                 Get(season_updates(us, sid)[k], "MatchStartTime", 0)], 0)

\* latest_time in the iteration of season sid
latest_time(sid) == latest_time_in(updates, sid)

\* The entry seasonal_list.append(...) adds for season sid of the record d, the
\* match-update list being us
SeasonSummaryOf(d, us, sid) ==
  LET short == season_short(sid)
      season_data == Item(d, sid)
      tier_id == Get(season_data, "CompetitiveTier", 0)
      leaderboard_rank == Get(season_data, "LeaderboardRank", 0)
  IN  [ season |-> [id |-> sid, short |-> season_short(sid)],
        wins |-> Get(season_data, "NumberOfWins", 0),
        games |-> Get(season_data, "NumberOfGames", 0),
        end_tier |-> [id |-> tier_id, name |-> get_tier_name(tier_id, short)],
        end_rr |-> Get(season_data, "RankedRating", 0),
        ranking_schema |-> get_ranking_schema(sid),
        leaderboard_placement |->
          IF leaderboard_rank > 0
          THEN << [rank |-> leaderboard_rank,
                   updated_at |-> to_iso(latest_time_in(us, sid))] >>
          ELSE << >>,
        act_wins |-> build_act_wins(Get(season_data, "WinsByTier", << >>), short) ]

\* The entry seasonal_list.append(...) adds for season sid
SeasonSummary(sid) == SeasonSummaryOf(seasonal, updates, sid)

\* One iteration of the seasonal breakdown loop that appends a summary.
SeasonalAppend ==
  /\ pc = "seasonal"
  /\ i <= Len(sorted_seasons)
  /\ startswith(season_short(sorted_seasons[i]), "e")
  /\ LET sid == sorted_seasons[i]
     IN  IF IntKeys(Get(Item(seasonal, sid), "WinsByTier", << >>))
         THEN /\ seasonal_list' = Append(seasonal_list, SeasonSummary(sid))
              /\ i' = i + 1
              /\ pc' = pc
         ELSE /\ pc' = "raised"
              /\ UNCHANGED << seasonal_list, i >>
  /\ UNCHANGED other_vars
  /\ UNCHANGED << seasonal, updates, latest_competitive_update,
                  peak_tier, peak_rr, peak_season_id,
                  current_season_id, current_tier, current_rr, current_data,
                  current_elo, sorted_seasons, output >>

\* The report built from the peak scan's result, the current standing, the
\* latest competitive update and the seasonal breakdown
ReportOf(peak, current, latest, list) ==
  [ status |-> 200,
    data |->
      [ peak |->
          [ season |-> [id |-> OrEmpty(peak.season_id),
                        short |-> season_short(OrEmpty(peak.season_id))],
            ranking_schema |-> get_ranking_schema(OrEmpty(peak.season_id)),
            tier |-> [id |-> peak.tier,
                      name |-> get_tier_name(peak.tier,
                                             season_short(OrEmpty(peak.season_id)))],
            rr |-> peak.rr ],
        current |->
          [ tier |-> [id |-> current.tier,
                      name |-> get_tier_name(current.tier,
                                             season_short(OrEmpty(current.season_id)))],
            rr |-> current.rr,
            last_change |-> Get(latest, "RankedRatingEarned", 0),
            elo |-> current.elo,
            rank_protection_shields |-> Get(current.data, "RankProtectionFirstPlateau", 0),
            leaderboard_placement |->
              IF Get(current.data, "LeaderboardRank", 0) > 0
              THEN << [rank |-> Get(current.data, "LeaderboardRank", 0),
                       updated_at |-> to_iso(Get(latest, "MatchStartTime", 0))] >>
              ELSE << >> ],
        seasonal |-> list ] ]

\* The report map_mmr_to_henrik returns
Report ==
  ReportOf([tier |-> peak_tier, rr |-> peak_rr, season_id |-> peak_season_id],
           [season_id |-> current_season_id, data |-> current_data,
            tier |-> current_tier, rr |-> current_rr, elo |-> current_elo],
           latest_competitive_update, seasonal_list)

\* "return output"
Return ==
  /\ pc = "seasonal"
  /\ i > Len(sorted_seasons)
  /\ output' = Report
  /\ pc' = "done"
  /\ UNCHANGED other_vars
  /\ UNCHANGED << seasonal, updates, latest_competitive_update, i,
                  peak_tier, peak_rr, peak_season_id,
                  current_season_id, current_tier, current_rr, current_data,
                  current_elo, sorted_seasons, seasonal_list >>

Next == PeakScan \/ Current \/ SeasonalSkip \/ SeasonalAppend \/ Return

Spec == Init /\ [][Next]_vars

\* seasonal_list after the loop over sorted(seasonal.keys(), key=sort_key_season)
RECURSIVE SeasonalListOf(_, _, _)
SeasonalListOf(d, us, sids) ==
  IF sids = << >> THEN << >>
  ELSE IF ~startswith(season_short(Head(sids)), "e")
  THEN SeasonalListOf(d, us, Tail(sids))
  ELSE << SeasonSummaryOf(d, us, Head(sids)) >> \o SeasonalListOf(d, us, Tail(sids))

\* map_mmr_to_henrik as a function of the rating record d, the match-update
\* list us and the latest competitive update
FullReport(d, us, latest) ==
  ReportOf(PeakOf(d),
           [season_id |-> CurrentOf(d).season_id, data |-> CurrentOf(d).data,
            tier |-> CurrentOf(d).tier, rr |-> CurrentOf(d).rr,
            elo |-> elo(CurrentOf(d).tier, CurrentOf(d).rr)],
           latest,
           SeasonalListOf(d, us, sorted_by_season(d)))

(***************************************************************************)
(* map_mmr_to_henrik over match-update lists and latest competitive updates *)
(***************************************************************************)

\* The seasons' entries with a leaderboard rank, and one without
UpdateInfos ==
  { s \in SeasonInfos : s.LeaderboardRank > 0 \/ s.NumberOfWins = 2 }

\* The match updates: two of season e9a3, one of season e10a1
MatchUpdateEntries ==
  { [SeasonID |-> E9A3, MatchStartTime |-> 1700],
    [SeasonID |-> E9A3, MatchStartTime |-> 1600],
    [SeasonID |-> E10A1, MatchStartTime |-> 1800] }

\* The match-update lists: the entries, some or all or none, in every order
MatchUpdateLists ==
  { us \in UNION { [1..m -> MatchUpdateEntries] : m \in 0..3 } :
      \A j, k \in 1..Len(us) : j # k => us[j] # us[k] }

\* mmr.get("LatestCompetitiveUpdate") or {}: absent, or the latest match
LatestCompetitiveUpdates == { << >>, LatestCompetitiveUpdate }

InitUpdates ==
  InitWith(Dicts({E9A3, E10A1, NotMapped}, UpdateInfos, MaxSeasons),
           MatchUpdateLists, LatestCompetitiveUpdates)

SpecUpdates == InitUpdates /\ [][Next]_vars

(***************************************************************************)
(* map_mmr_to_henrik over the current tiers and ratings                    *)
(***************************************************************************)

\* RankedRating of the one season: below 100, and 100 and above
EloRatings == {0, 50, 91, 99, 100, 291}

\* The rating records of one season, of every CompetitiveTier of TIER_MAP
EloRecords ==
  { << << sid, [WinsByTier |-> (<< "1", "5" >> :> 2),
               RankedRating |-> rr, CompetitiveTier |-> tier,
               LeaderboardRank |-> 0, NumberOfWins |-> 2, NumberOfGames |-> 5] >> >> :
      sid \in {E9A3, NotMapped}, rr \in EloRatings, tier \in DOMAIN TIER_MAP }

InitElo == InitWith(EloRecords, {MatchUpdates}, {LatestCompetitiveUpdate})

SpecElo == InitElo /\ [][Next]_vars

(***************************************************************************)
(* get_tier_name, called on its own                                        *)
(***************************************************************************)

\* Largest tier id get_tier_name is called with (TIER_MAP ends at 27).
MaxTierId == 29

\* The tier ids of the calls: below, in and above the keys of TIER_MAP.
TierIds == (0 - 2)..MaxTierId

\* The season_short_str of the calls: empty, "unknown", placeholders (3f61,
\* ee21), malformed (e, exa1, ea1), chronological codes before and from
\* episode 5 (e1a2, e4a3, e5a1, e9a3, e10a1), an episode without act (e4) and a
\* code of the other catalogs (v25a1).
ShortCodes ==
  { << >>, Unknown,
    << "3", "f", "6", "1" >>, << "e", "e", "2", "1" >>,
    << "e" >>, << "e", "x", "a", "1" >>, << "e", "a", "1" >>,
    << "e", "1", "a", "2" >>, << "e", "4", "a", "3" >>,
    << "e", "5", "a", "1" >>, << "e", "9", "a", "3" >>,
    << "e", "1", "0", "a", "1" >>, << "e", "4" >>,
    << "v", "2", "5", "a", "1" >> }

\* A caller about to call get_tier_name(call_tier_id, call_season_short)
InitTierName ==
  /\ call_tier_id \in TierIds
  /\ call_season_short \in ShortCodes
  /\ call_name = ""
  /\ pc = "call"
  /\ seasonal = << >>
  /\ updates = << >>
  /\ latest_competitive_update = << >>
  /\ i = 1
  /\ peak_tier = 0
  /\ peak_rr = 0
  /\ peak_season_id = None
  /\ current_season_id = None
  /\ current_tier = 0
  /\ current_rr = 0
  /\ current_data = << >>
  /\ current_elo = 0
  /\ sorted_seasons = << >>
  /\ seasonal_list = << >>
  /\ output = << >>
  /\ act_id = << >>
  /\ is_current_act = FALSE
  /\ IoIdle

\* The call returns
GetTierName ==
  /\ pc = "call"
  /\ call_name' = get_tier_name(call_tier_id, call_season_short)
  /\ pc' = "returned"
  /\ UNCHANGED << seasonal, updates, latest_competitive_update, i,
                  peak_tier, peak_rr, peak_season_id,
                  current_season_id, current_tier, current_rr, current_data,
                  current_elo, sorted_seasons, seasonal_list, output,
                  call_tier_id, call_season_short, act_id, is_current_act >>
  /\ UNCHANGED io_vars

SpecTierName == InitTierName /\ [][GetTierName]_vars

(***************************************************************************)
(* map_mmr_to_henrik of get_valo_mmr.py: the summary report                *)
(***************************************************************************)

\* SEASON_MAP of get_valo_mmr.py (identifiers written as in SEASON_MAP above)
get_valo_mmr_SEASON_MAP ==
     (<< "3", "f", "6", "1", "c", "7", "7", "2" >> :> << "e", "1", "a", "1" >>)
  @@ (<< "0", "5", "3", "0", "b", "9", "c", "4" >> :> << "e", "1", "a", "2" >>)
  @@ (<< "4", "6", "e", "a", "6", "1", "6", "6" >> :> << "e", "1", "a", "3" >>)
  @@ (<< "9", "7", "b", "6", "e", "7", "3", "9" >> :> << "e", "2", "a", "1" >>)
  @@ (<< "a", "b", "5", "7", "e", "f", "5", "1" >> :> << "e", "2", "a", "2" >>)
  @@ (<< "5", "2", "e", "9", "7", "4", "9", "a" >> :> << "e", "2", "a", "3" >>)
  @@ (<< "2", "a", "2", "7", "e", "5", "d", "2" >> :> << "e", "3", "a", "1" >>)
  @@ (<< "4", "c", "b", "6", "2", "2", "e", "1" >> :> << "e", "3", "a", "2" >>)
  @@ (<< "a", "1", "6", "9", "5", "5", "a", "5" >> :> << "e", "3", "a", "3" >>)
  @@ (<< "5", "7", "3", "f", "5", "3", "a", "c" >> :> << "e", "4", "a", "1" >>)
  @@ (<< "d", "9", "2", "9", "b", "c", "3", "8" >> :> << "e", "4", "a", "2" >>)
  @@ (<< "3", "e", "4", "7", "2", "3", "0", "a" >> :> << "e", "4", "a", "3" >>)
  @@ (<< "6", "7", "e", "3", "7", "3", "c", "7" >> :> << "e", "5", "a", "1" >>)
  @@ (<< "7", "a", "8", "5", "d", "e", "9", "a" >> :> << "e", "5", "a", "2" >>)
  @@ (<< "a", "c", "a", "2", "9", "5", "9", "5" >> :> << "e", "5", "a", "3" >>)
  @@ (<< "9", "c", "9", "1", "a", "4", "4", "5" >> :> << "e", "6", "a", "1" >>)
  @@ (<< "3", "4", "0", "9", "3", "c", "2", "9" >> :> << "e", "6", "a", "2" >>)
  @@ (<< "2", "d", "e", "5", "4", "2", "3", "b" >> :> << "e", "6", "a", "3" >>)
  @@ (<< "0", "9", "8", "1", "a", "8", "8", "2" >> :> << "e", "7", "a", "1" >>)
  @@ (<< "0", "3", "d", "f", "d", "0", "0", "4" >> :> << "e", "7", "a", "2" >>)
  @@ (<< "4", "4", "0", "1", "f", "9", "f", "d" >> :> << "e", "7", "a", "3" >>)
  @@ (<< "e", "c", "8", "7", "6", "e", "6", "c" >> :> << "e", "8", "a", "1" >>)
  @@ (<< "2", "2", "d", "1", "0", "d", "6", "6" >> :> << "e", "8", "a", "2" >>)
  @@ (<< "4", "5", "3", "9", "c", "a", "c", "3" >> :> << "e", "8", "a", "3" >>)
  @@ (<< "5", "2", "c", "a", "6", "6", "9", "8" >> :> << "e", "9", "a", "1" >>)
  @@ (<< "2", "9", "2", "f", "5", "8", "d", "b" >> :> << "e", "9", "a", "2" >>)
  @@ (<< "d", "c", "d", "e", "7", "3", "4", "6" >> :> << "e", "9", "a", "3" >>)
  @@ (<< "4", "7", "6", "b", "0", "8", "9", "3" >> :> << "v", "2", "5", "a", "1" >>)
  @@ (<< "1", "6", "1", "1", "8", "9", "9", "8" >> :> << "v", "2", "5", "a", "2" >>)
  @@ (<< "a", "e", "f", "2", "3", "7", "a", "0" >> :> << "v", "2", "5", "a", "3" >>)
  @@ (<< "a", "c", "1", "2", "e", "9", "b", "3" >> :> << "v", "2", "5", "a", "4" >>)
  @@ (<< "5", "a", "d", "c", "3", "3", "f", "a" >> :> << "v", "2", "5", "a", "5" >>)
  @@ (<< "4", "c", "4", "b", "8", "c", "f", "f" >> :> << "v", "2", "5", "a", "6" >>)
  @@ (<< "3", "e", "a", "2", "b", "3", "1", "8" >> :> << "v", "2", "6", "a", "1" >>)
  @@ (<< "9", "d", "8", "5", "c", "9", "3", "2" >> :> << "v", "2", "6", "a", "2" >>)
  @@ (<< "c", "e", "2", "7", "8", "3", "e", "8" >> :> << "v", "2", "6", "a", "3" >>)
  @@ (<< "4", "f", "0", "8", "6", "4", "e", "2" >> :> << "v", "2", "6", "a", "4" >>)
  @@ (<< "8", "1", "0", "2", "c", "d", "8", "1" >> :> << "v", "2", "6", "a", "5" >>)
  @@ (<< "d", "8", "1", "6", "f", "4", "2", "6" >> :> << "v", "2", "6", "a", "6" >>)

\* season_short of get_valo_mmr.py
get_valo_mmr_season_short(season_id) ==
  IF season_id \in DOMAIN get_valo_mmr_SEASON_MAP
  THEN get_valo_mmr_SEASON_MAP[season_id]
  ELSE IF season_id # << >> THEN lower(Prefix(season_id, 4))
  ELSE Unknown

\* "476b0893-..." (in get_valo_mmr.SEASON_MAP as v25a1)
V25A1 ==
  << "4", "7", "6", "b", "0", "8", "9", "3" >>

\* The act_id arguments: none, three acts of the catalog, one that is none
ActIds ==
  { << >>,
    << "e", "1", "a", "2" >>, << "e", "9", "a", "3" >>,
    << "v", "2", "5", "a", "1" >>, << "v", "9", "9", "a", "9" >> }

\* "for uuid, short in SEASON_MAP.items(): if short == act_id": season_uuid
season_uuid_of(act) ==
  IF \E uuid \in DOMAIN get_valo_mmr_SEASON_MAP : get_valo_mmr_SEASON_MAP[uuid] = act
  THEN CHOOSE uuid \in DOMAIN get_valo_mmr_SEASON_MAP :
         get_valo_mmr_SEASON_MAP[uuid] = act
  ELSE None

\* key in seasonal
HasKey(d, key) == \E k \in 1..Len(d) : d[k][1] = key

\* seasonal.get(key, {})
ItemOrEmpty(d, key) == IF HasKey(d, key) THEN Item(d, key) ELSE << >>

\* current_season_id, current_data and is_current_act after the choice of the
\* season, for a record d that is not empty
summary_select(d, latest_update, act) ==
  LET latest_season_id == Get(latest_update, "SeasonID", << >>)
      season_uuid == season_uuid_of(act)
      fallback == IF latest_season_id # << >> /\ HasKey(d, latest_season_id)
                  THEN latest_season_id ELSE last_sorted(d)
  IN  IF act # << >>
      THEN IF season_uuid # None /\ HasKey(d, season_uuid)
           THEN [season_id |-> season_uuid, data |-> Item(d, season_uuid),
                 is_current_act |-> (season_uuid = latest_season_id)]
           ELSE LET sid == IF HasKey(d, latest_season_id)
                           THEN latest_season_id ELSE last_sorted(d)
                IN  [season_id |-> sid, data |-> ItemOrEmpty(d, sid),
                     is_current_act |-> TRUE]
      ELSE [season_id |-> fallback, data |-> Item(d, fallback),
            is_current_act |-> TRUE]

\* The current standing read from the season's aggregate only
summary_current_aggregate(d, latest_update, act) ==
  IF Len(d) > 0
  THEN LET sel == summary_select(d, latest_update, act)
       IN  [season_id |-> sel.season_id, data |-> sel.data,
            is_current_act |-> sel.is_current_act,
            tier |-> Get(sel.data, "CompetitiveTier", 0),
            rr |-> Get(sel.data, "RankedRating", 0)]
  ELSE [season_id |-> None, data |-> << >>, is_current_act |-> FALSE,
        tier |-> 0, rr |-> 0]

\* The locals after "if seasonal:" of get_valo_mmr.map_mmr_to_henrik
summary_current(d, latest_update, act) ==
  IF Len(d) > 0
  THEN LET sel == summary_select(d, latest_update, act)
       IN  IF sel.is_current_act /\ latest_update # << >>
           THEN [season_id |-> sel.season_id, data |-> sel.data,
                 is_current_act |-> sel.is_current_act,
                 tier |-> Get(latest_update, "TierAfterUpdate",
                              Get(sel.data, "CompetitiveTier", 0)),
                 rr |-> Get(latest_update, "RankedRatingAfterUpdate", 0)]
           ELSE [season_id |-> sel.season_id, data |-> sel.data,
                 is_current_act |-> sel.is_current_act,
                 tier |-> Get(sel.data, "CompetitiveTier", 0),
                 rr |-> Get(sel.data, "RankedRating", 0)]
  ELSE [season_id |-> None, data |-> << >>, is_current_act |-> FALSE,
        tier |-> 0, rr |-> 0]

\* The arguments and the locals at the first line of the function
InitSummary ==
  /\ seasonal \in Dicts({E1A2, E9A3, V25A1}, UpdateInfos, MaxSeasons)
  /\ latest_competitive_update \in LatestCompetitiveUpdates
  /\ act_id \in ActIds
  /\ is_current_act = FALSE
  /\ pc = "summary_peak"
  /\ i = 1
  /\ peak_tier = PeakStart.tier
  /\ peak_rr = PeakStart.rr
  /\ peak_season_id = PeakStart.season_id
  /\ current_season_id = None
  /\ current_tier = 0
  /\ current_rr = 0
  /\ current_data = << >>
  /\ current_elo = 0
  /\ updates = << >>
  /\ sorted_seasons = << >>
  /\ seasonal_list = << >>
  /\ output = << >>
  /\ call_tier_id = 0
  /\ call_season_short = << >>
  /\ call_name = ""
  /\ IoIdle

\* One iteration of the peak scan
SummaryPeakScan ==
  /\ pc = "summary_peak"
  /\ i <= Len(seasonal)
  /\ IF IntKeys(Get(seasonal[i][2], "WinsByTier", << >>))
     THEN LET peak == peak_scan([tier |-> peak_tier, rr |-> peak_rr,
                                 season_id |-> peak_season_id],
                                seasonal[i][1], seasonal[i][2])
          IN  /\ peak_tier' = peak.tier
              /\ peak_rr' = peak.rr
              /\ peak_season_id' = peak.season_id
              /\ i' = i + 1
              /\ pc' = pc
     ELSE /\ pc' = "raised"
          /\ UNCHANGED << i, peak_tier, peak_rr, peak_season_id >>
  /\ UNCHANGED << seasonal, updates, latest_competitive_update,
                  current_season_id, current_tier, current_rr, current_data,
                  current_elo, sorted_seasons, seasonal_list, output,
                  call_tier_id, call_season_short, call_name,
                  act_id, is_current_act >>
  /\ UNCHANGED io_vars

\* After the peak scan: the current season, tier and rating
SummaryCurrent ==
  /\ pc = "summary_peak"
  /\ i > Len(seasonal)
  /\ LET current == summary_current(seasonal, latest_competitive_update, act_id)
     IN  /\ current_season_id' = current.season_id
         /\ current_data' = current.data
         /\ is_current_act' = current.is_current_act
         /\ current_tier' = current.tier
         /\ current_rr' = current.rr
  /\ pc' = "summary_return"
  /\ UNCHANGED << seasonal, updates, latest_competitive_update, i,
                  peak_tier, peak_rr, peak_season_id,
                  current_elo, sorted_seasons, seasonal_list, output,
                  call_tier_id, call_season_short, call_name, act_id >>
  /\ UNCHANGED io_vars

\* The dict get_valo_mmr.map_mmr_to_henrik returns, without the two fields it
\* copies from mmr (games_needed_for_rating, rank_protection_shields)
Summary ==
  [ current_rank |->
      get_tier_name(current_tier,
                    get_valo_mmr_season_short(OrEmpty(current_season_id))),
    current_rr |-> current_rr,
    leaderboard_placement |-> Get(current_data, "LeaderboardRank", 0),
    peak_rank |->
      get_tier_name(peak_tier, get_valo_mmr_season_short(OrEmpty(peak_season_id))),
    peak_rr |-> peak_rr,
    peak_act |-> get_valo_mmr_season_short(OrEmpty(peak_season_id)) ]

\* "return {...}"
SummaryReturn ==
  /\ pc = "summary_return"
  /\ output' = Summary
  /\ pc' = "done"
  /\ UNCHANGED << seasonal, updates, latest_competitive_update, i,
                  peak_tier, peak_rr, peak_season_id,
                  current_season_id, current_tier, current_rr, current_data,
                  current_elo, sorted_seasons, seasonal_list,
                  call_tier_id, call_season_short, call_name,
                  act_id, is_current_act >>
  /\ UNCHANGED io_vars

NextSummary == SummaryPeakScan \/ SummaryCurrent \/ SummaryReturn

SpecSummary == InitSummary /\ [][NextSummary]_vars

(***************************************************************************)
(* map_mmr_to_henrik over seasons with missing or malformed fields         *)
(***************************************************************************)

\* Seasons as the service may send them: every key absent but one, a
\* WinsByTier key that is no integer literal, and two well-formed seasons.
MalformedInfos ==
  { [NumberOfGames |-> 1],
    [WinsByTier |-> (<< "x" >> :> 1),
     RankedRating |-> 10, CompetitiveTier |-> 12, LeaderboardRank |-> 0,
     NumberOfWins |-> 1, NumberOfGames |-> 2],
    [WinsByTier |-> (<< "1", "5" >> :> 2),
     RankedRating |-> 40, CompetitiveTier |-> 15, LeaderboardRank |-> 0,
     NumberOfWins |-> 2, NumberOfGames |-> 5],
    [WinsByTier |-> (<< "2", "1" >> :> 1),
     RankedRating |-> 0, CompetitiveTier |-> 21, LeaderboardRank |-> 0,
     NumberOfWins |-> 1, NumberOfGames |-> 1] }

InitMalformed ==
  InitWith(Dicts({E9A3, E10A1, NotMapped}, MalformedInfos, MaxSeasons),
           {MatchUpdates}, {LatestCompetitiveUpdate})

SpecMalformed == InitMalformed /\ [][Next]_vars

(***************************************************************************)
(* Two invocations of map_mmr_to_henrik with the same arguments, while the *)
(* wall clock runs                                                         *)
(***************************************************************************)

\* The wall clock advances at most this far
MaxClock == 2

\* How often the caller invokes the function
Invocations == 2

InitTwice ==
  InitWith(Dicts({E9A3, E10A1, NotMapped}, UpdateInfos, MaxSeasons),
           {MatchUpdates}, {LatestCompetitiveUpdate})

\* Time passes, between two statements or between two invocations
Tick ==
  /\ pc \in {"peak", "seasonal", "done"}
  /\ clock < MaxClock
  /\ clock' = clock + 1
  /\ UNCHANGED << seasonal, updates, latest_competitive_update, pc, i,
                  peak_tier, peak_rr, peak_season_id,
                  current_season_id, current_tier, current_rr, current_data,
                  current_elo, sorted_seasons, seasonal_list, output,
                  call_tier_id, call_season_short, call_name,
                  act_id, is_current_act,
                  env, calls, result, start, all_matches, elapsed,
                  pregame_match_id, reports, owned_items >>

\* The caller keeps the report and invokes the function again with the same
\* rating record and the same match-update list
Invoke ==
  /\ pc = "done"
  /\ reports' = Append(reports, output)
  /\ IF Len(reports') < Invocations
     THEN /\ pc' = "peak"
          /\ i' = 1
          /\ peak_tier' = PeakStart.tier
          /\ peak_rr' = PeakStart.rr
          /\ peak_season_id' = PeakStart.season_id
          /\ current_season_id' = None
          /\ current_tier' = 0
          /\ current_rr' = 0
          /\ current_data' = << >>
          /\ current_elo' = 0
          /\ sorted_seasons' = << >>
          /\ seasonal_list' = << >>
          /\ output' = << >>
     ELSE /\ pc' = "finished"
          /\ UNCHANGED << i, peak_tier, peak_rr, peak_season_id,
                          current_season_id, current_tier, current_rr,
                          current_data, current_elo, sorted_seasons,
                          seasonal_list, output >>
  /\ UNCHANGED << seasonal, updates, latest_competitive_update,
                  call_tier_id, call_season_short, call_name,
                  act_id, is_current_act,
                  env, calls, result, start, all_matches, elapsed,
                  pregame_match_id, clock, owned_items >>

NextTwice == Next \/ Tick \/ Invoke

SpecTwice == InitTwice /\ [][NextTwice]_vars

(***************************************************************************)
(* get_competitive_updates: the paginated fetch of the match updates       *)
(***************************************************************************)

\* No report is being computed: the arguments and locals of map_mmr_to_henrik
\* and of get_tier_name at rest
MapIdle ==
  /\ seasonal = << >>
  /\ updates = << >>
  /\ latest_competitive_update = << >>
  /\ i = 1
  /\ peak_tier = 0
  /\ peak_rr = 0
  /\ peak_season_id = None
  /\ current_season_id = None
  /\ current_tier = 0
  /\ current_rr = 0
  /\ current_data = << >>
  /\ current_elo = 0
  /\ sorted_seasons = << >>
  /\ seasonal_list = << >>
  /\ output = << >>
  /\ call_tier_id = 0
  /\ call_season_short = << >>
  /\ call_name = ""
  /\ act_id = << >>
  /\ is_current_act = FALSE

\* The variables of the reports, which no workflow step assigns
map_vars ==
  << seasonal, updates, latest_competitive_update, i,
     peak_tier, peak_rr, peak_season_id,
     current_season_id, current_tier, current_rr, current_data, current_elo,
     sorted_seasons, seasonal_list, output,
     call_tier_id, call_season_short, call_name, act_id, is_current_act >>

\* page = 200
page == 200

\* The largest limit is MaxPages pages
MaxPages == 3

\* The limits a caller passes: none, and for each number of pages one entry
\* more than the pages before, half a page more, and the full pages
Limits ==
  {0} \cup UNION { { (p - 1) * page + 1, (p - 1) * page + 100, p * page } :
                     p \in 1..MaxPages }

\* What the service answers to one request: a status, and with status 200 the
\* number of entries of "Matches", at most a page
Responses ==
  { [status |-> 200, n |-> n] : n \in {0, 1, 199, page} }
    \cup { [status |-> 500, n |-> 0] }

\* The entries startIndex..startIndex + n - 1 of the player's history, each
\* match named by its index
Matches(startIndex, n) == [k \in 1..n |-> startIndex + k - 1]

\* The loop never breaks on a short page
short_page_never(matches) == FALSE

\* len(matches) < page
short_page(matches) == Len(matches) < page

\* get_competitive_updates(..., limit) is called
InitFetch ==
  /\ MapIdle
  /\ pc = "client_version"
  /\ env \in [limit : Limits]
  /\ calls = << >>
  /\ result = << >>
  /\ start = 0
  /\ all_matches = << >>
  /\ elapsed = 0
  /\ pregame_match_id = None
  /\ clock = 0
  /\ reports = << >>
  /\ owned_items = << >>

\* client_version = get_client_version(): one request, whose failure is
\* replaced by a default version
GetClientVersion ==
  /\ pc = "client_version"
  /\ calls' = Append(calls, [request |-> "version", startIndex |-> 0,
                             endIndex |-> 0, status |-> 200,
                             matches |-> << >>])
  /\ pc' = "fetch"
  /\ UNCHANGED << env, result, start, all_matches, elapsed, pregame_match_id,
                  clock, reports, owned_items >>
  /\ UNCHANGED map_vars

\* One iteration of "while start < limit"
FetchPage ==
  /\ pc = "fetch"
  /\ start < env.limit
  /\ \E res \in Responses :
       LET matches == Matches(start, res.n)
       IN  /\ calls' = Append(calls, [request |-> "competitiveupdates",
                                      startIndex |-> start,
                                      endIndex |-> start + page,
                                      status |-> res.status,
                                      matches |-> matches])
           /\ IF res.status # 200
              THEN /\ pc' = "break"
                   /\ UNCHANGED << all_matches, start >>
              ELSE /\ all_matches' = all_matches \o matches
                   /\ IF short_page(matches)
                      THEN /\ pc' = "break"
                           /\ start' = start
                      ELSE /\ pc' = pc
                           /\ start' = start + page
  /\ UNCHANGED << env, result, elapsed, pregame_match_id, clock, reports,
                  owned_items >>
  /\ UNCHANGED map_vars

\* "return all_matches", after a break or when start has reached limit
ReturnAllMatches ==
  /\ \/ pc = "break"
     \/ pc = "fetch" /\ start >= env.limit
  /\ result' = all_matches
  /\ pc' = "returned"
  /\ UNCHANGED << env, calls, start, all_matches, elapsed, pregame_match_id,
                  clock, reports, owned_items >>
  /\ UNCHANGED map_vars

NextFetch == GetClientVersion \/ FetchPage \/ ReturnAllMatches

SpecFetch == InitFetch /\ [][NextFetch]_vars

\* The function runs to its end: no statement of it blocks for ever
SpecFetchLive == SpecFetch /\ WF_vars(NextFetch)

(***************************************************************************)
(* get_owned_items_data of owned_items.py                                  *)
(***************************************************************************)

\* ITEM_TYPE_IDS, in insertion order: <<item type id, name>>, an id written
\* as its first group of eight characters
ITEM_TYPE_IDS ==
  << << << "0", "1", "b", "b", "3", "8", "e", "1" >>,
        << "A", "g", "e", "n", "t", "s" >> >>,
     << << "f", "8", "5", "c", "b", "6", "f", "7" >>,
        << "C", "o", "n", "t", "r", "a", "c", "t", "s" >> >>,
     << << "d", "5", "f", "1", "2", "0", "f", "8" >>,
        << "S", "p", "r", "a", "y", "s" >> >>,
     << << "d", "d", "3", "b", "f", "3", "3", "4" >>,
        << "G", "u", "n", " ", "B", "u", "d", "d", "i", "e", "s" >> >>,
     << << "3", "f", "2", "9", "6", "c", "0", "7" >>,
        << "C", "a", "r", "d", "s" >> >>,
     << << "e", "7", "c", "6", "3", "3", "9", "0" >>,
        << "S", "k", "i", "n", "s" >> >>,
     << << "3", "a", "d", "1", "b", "2", "b", "2" >>,
        << "S", "k", "i", "n", " ", "V", "a", "r", "i", "a", "n", "t", "s" >> >>,
     << << "d", "e", "7", "c", "a", "a", "6", "b" >>,
        << "T", "i", "t", "l", "e", "s" >> >> >>

\* ITEM_TYPE_IDS[key], or << >> if key is no item type id
ItemTypeName(key) ==
  IF \E k \in 1..Len(ITEM_TYPE_IDS) : ITEM_TYPE_IDS[k][1] = key
  THEN ITEM_TYPE_IDS[CHOOSE k \in 1..Len(ITEM_TYPE_IDS) :
                       ITEM_TYPE_IDS[k][1] = key][2]
  ELSE << >>

\* ITEM_TYPE_BY_NAME[key] = the id whose name in lower case is key, or << >>
ITEM_TYPE_BY_NAME(key) ==
  IF \E k \in 1..Len(ITEM_TYPE_IDS) : lower(ITEM_TYPE_IDS[k][2]) = key
  THEN ITEM_TYPE_IDS[CHOOSE k \in 1..Len(ITEM_TYPE_IDS) :
                       lower(ITEM_TYPE_IDS[k][2]) = key][1]
  ELSE << >>

\* fetch_categories[type_id] = name, on a dict kept as a sequence of pairs
PutCategory(d, type_id) ==
  IF \E k \in 1..Len(d) : d[k][1] = type_id THEN d
  ELSE Append(d, << type_id, ItemTypeName(type_id) >>)

\* The loop "for cat in categories" from position k on
RECURSIVE MapCategories(_, _, _)
MapCategories(categories, k, d) ==
  IF k > Len(categories) THEN d
  ELSE LET cat == categories[k]
       IN  IF ITEM_TYPE_BY_NAME(lower(cat)) # << >>
           THEN MapCategories(categories, k + 1,
                              PutCategory(d, ITEM_TYPE_BY_NAME(lower(cat))))
           ELSE IF ItemTypeName(cat) # << >>
           THEN MapCategories(categories, k + 1, PutCategory(d, cat))
           ELSE MapCategories(categories, k + 1, d)

\* fetch_categories: the named categories, or all of them for None or []
fetch_categories(categories) ==
  IF categories # << >> THEN MapCategories(categories, 1, << >>)
  ELSE ITEM_TYPE_IDS

\* The categories argument: None, one name in another case, a name, an id and
\* a name no category has
CategoryLists ==
  { << >>,
    << << "a", "g", "e", "n", "t", "s" >> >>,
    << << "S", "k", "i", "n", "s" >>, << "3", "f", "2", "9", "6", "c", "0", "7" >>,
       << "b", "o", "g", "u", "s" >> >> }

\* What get_owned_items_by_type returns: None for a status other than 200,
\* else the body, which may be {} or carry "Entitlements"
OwnedResponses ==
  { [status |-> 500, body |-> "None", ItemIDs |-> << >>],
    [status |-> 200, body |-> "{}", ItemIDs |-> << >>],
    [status |-> 200, body |-> "Entitlements", ItemIDs |-> << "item" >>] }

\* The account behind the cookies: acct.game_name, acct.tag_line
GameName == << "A", "b" >>
TagLine == << "X" >>

\* What the services answer, and the arguments of the call (resolve_names
\* False, as by default)
OwnedEnvs ==
  [ tokens : {"None", "ok"},
    entitlement_token : {"None", "ok"},
    player_info : {"None", "ok"},
    player_name : { << >>, << "a", "B" >>, << "z" >> },
    player_tag : { << "x" >> },
    player_region : { << >>, << "A", "P" >> },
    region : { << >>, << "n", "a" >> },
    categories : CategoryLists ]

InitOwned ==
  /\ MapIdle
  /\ pc = "owned_auth"
  /\ env \in OwnedEnvs
  /\ calls = << >>
  /\ result = << >>
  /\ start = 0
  /\ all_matches = << >>
  /\ elapsed = 0
  /\ pregame_match_id = None
  /\ clock = 0
  /\ reports = << >>
  /\ owned_items = << >>

\* A failed result
OwnedFailure(error_code) ==
  [success |-> FALSE, error_code |-> error_code, region |-> << >>,
   owned_items |-> << >>, total_items |-> 0]

\* tokens = cookie_reauth()
OwnedAuthenticate ==
  /\ pc = "owned_auth"
  /\ calls' = Append(calls, [request |-> "cookie_reauth", item_type |-> << >>,
                             status |-> 0])
  /\ IF env.tokens = "None"
     THEN result' = OwnedFailure("AUTH_FAILED") /\ pc' = "returned"
     ELSE result' = result /\ pc' = "owned_entitlement"
  /\ UNCHANGED owned_items
  /\ UNCHANGED << env, start, all_matches, elapsed, pregame_match_id, clock,
                  reports >>
  /\ UNCHANGED map_vars

\* entitlement_token = get_entitlement_token(access_token)
OwnedEntitlement ==
  /\ pc = "owned_entitlement"
  /\ calls' = Append(calls, [request |-> "entitlement", item_type |-> << >>,
                             status |-> 0])
  /\ IF env.entitlement_token = "None"
     THEN result' = OwnedFailure("ENTITLEMENT_FAILED") /\ pc' = "returned"
     ELSE result' = result /\ pc' = "owned_player_info"
  /\ UNCHANGED owned_items
  /\ UNCHANGED << env, start, all_matches, elapsed, pregame_match_id, clock,
                  reports >>
  /\ UNCHANGED map_vars

\* player_info = get_player_info(access_token), and the check of the
\* requested player against the account
OwnedPlayerInfo ==
  /\ pc = "owned_player_info"
  /\ calls' = Append(calls, [request |-> "player_info", item_type |-> << >>,
                             status |-> 0])
  /\ IF env.player_info = "None"
     THEN result' = OwnedFailure("PLAYER_INFO_FAILED") /\ pc' = "returned"
     ELSE IF /\ env.player_name # << >>
             /\ env.player_tag # << >>
             /\ \/ lower(GameName) # lower(env.player_name)
                \/ lower(TagLine) # lower(env.player_tag)
     THEN result' = OwnedFailure("PLAYER_NOT_FOUND") /\ pc' = "returned"
     ELSE result' = result /\ pc' = "owned_region"
  /\ UNCHANGED owned_items
  /\ UNCHANGED << env, start, all_matches, elapsed, pregame_match_id, clock,
                  reports >>
  /\ UNCHANGED map_vars

\* The region: the argument in lower case, or get_player_region's answer
OwnedRegion ==
  /\ pc = "owned_region"
  /\ IF env.player_region # << >>
     THEN /\ calls' = calls
          /\ result' = result
          /\ pc' = "owned_fetch"
     ELSE /\ calls' = Append(calls, [request |-> "region",
                                     item_type |-> << >>, status |-> 0])
          /\ IF env.region = << >>
             THEN result' = OwnedFailure("REGION_FAILED") /\ pc' = "returned"
             ELSE result' = result /\ pc' = "owned_fetch"
  /\ UNCHANGED owned_items
  /\ UNCHANGED << env, start, all_matches, elapsed, pregame_match_id, clock,
                  reports >>
  /\ UNCHANGED map_vars

\* One iteration of "for item_type_id, item_type_name in fetch_categories"
OwnedFetch ==
  /\ pc = "owned_fetch"
  /\ Len(owned_items) < Len(fetch_categories(env.categories))
  /\ LET category == fetch_categories(env.categories)[Len(owned_items) + 1]
     IN  \E data \in OwnedResponses :
           /\ calls' = Append(calls, [request |-> "owned_items",
                                      item_type |-> category[1],
                                      status |-> data.status])
           /\ IF data.body = "Entitlements"
              THEN owned_items' =
                     Append(owned_items, << category[2], data.ItemIDs >>)
              ELSE owned_items' = Append(owned_items, << category[2], << >> >>)
  /\ UNCHANGED << pc, result >>
  /\ UNCHANGED << env, start, all_matches, elapsed, pregame_match_id, clock,
                  reports >>
  /\ UNCHANGED map_vars

\* sum(len(items) for items in owned_items.values())
RECURSIVE total_items(_)
total_items(d) ==
  IF d = << >> THEN 0 ELSE Len(Head(d)[2]) + total_items(Tail(d))

\* The return after the loop: always a success
OwnedReturn ==
  /\ pc = "owned_fetch"
  /\ Len(owned_items) = Len(fetch_categories(env.categories))
  /\ result' = [success |-> TRUE, error_code |-> "None",
                region |-> IF env.player_region # << >>
                           THEN lower(env.player_region) ELSE env.region,
                owned_items |-> owned_items,
                total_items |-> total_items(owned_items)]
  /\ pc' = "returned"
  /\ UNCHANGED << calls, owned_items >>
  /\ UNCHANGED << env, start, all_matches, elapsed, pregame_match_id, clock,
                  reports >>
  /\ UNCHANGED map_vars

NextOwned ==
  \/ OwnedAuthenticate
  \/ OwnedEntitlement
  \/ OwnedPlayerInfo
  \/ OwnedRegion
  \/ OwnedFetch
  \/ OwnedReturn

SpecOwned == InitOwned /\ [][NextOwned]_vars

(***************************************************************************)
(* instalock of instalock_agent.py                                         *)
(***************************************************************************)

\* max_wait is at most this many poll intervals
MaxWait == 2

\* A pre-game match id
MatchID == << "m" >>

\* What the services answer, and max_wait in units of poll_interval
InstalockEnvs ==
  [ agent : {"None", "no_uuid", "ok"},
    tokens : {"None", "ok"},
    entitlement_token : {"None", "ok"},
    puuid : {"None", "ok"},
    select_success : BOOLEAN,
    lock_success : BOOLEAN,
    max_wait : 0..MaxWait ]

InitInstalock ==
  /\ MapIdle
  /\ pc = "agent"
  /\ env \in InstalockEnvs
  /\ calls = << >>
  /\ result = << >>
  /\ start = 0
  /\ all_matches = << >>
  /\ elapsed = 0
  /\ pregame_match_id = None
  /\ clock = 0
  /\ reports = << >>
  /\ owned_items = << >>

\* One request, with the match id it returned or was sent with
Call(request, match_id) == [request |-> request, match_id |-> match_id]

\* agent = get_agent_by_name(agent_name), and its uuid
GetAgent ==
  /\ pc = "agent"
  /\ calls' = Append(calls, Call("agent", None))
  /\ IF env.agent # "ok"
     THEN result' = FALSE /\ pc' = "returned"
     ELSE result' = result /\ pc' = "auth"
  /\ UNCHANGED << elapsed, pregame_match_id >>
  /\ UNCHANGED << env, start, all_matches, clock, reports, owned_items >>
  /\ UNCHANGED map_vars

\* tokens = cookie_reauth(cookies_file)
Authenticate ==
  /\ pc = "auth"
  /\ calls' = Append(calls, Call("cookie_reauth", None))
  /\ IF env.tokens = "None"
     THEN result' = FALSE /\ pc' = "returned"
     ELSE result' = result /\ pc' = "entitlement"
  /\ UNCHANGED << elapsed, pregame_match_id >>
  /\ UNCHANGED << env, start, all_matches, clock, reports, owned_items >>
  /\ UNCHANGED map_vars

\* entitlement_token = get_entitlement_token(access_token)
Entitlement ==
  /\ pc = "entitlement"
  /\ calls' = Append(calls, Call("entitlement", None))
  /\ IF env.entitlement_token = "None"
     THEN result' = FALSE /\ pc' = "returned"
     ELSE result' = result /\ pc' = "puuid"
  /\ UNCHANGED << elapsed, pregame_match_id >>
  /\ UNCHANGED << env, start, all_matches, clock, reports, owned_items >>
  /\ UNCHANGED map_vars

\* puuid = get_puuid_from_player_info(access_token); then the loop starts
GetPuuid ==
  /\ pc = "puuid"
  /\ calls' = Append(calls, Call("userinfo", None))
  /\ IF env.puuid = "None"
     THEN result' = FALSE /\ pc' = "returned"
     ELSE result' = result /\ pc' = "poll"
  /\ UNCHANGED << elapsed, pregame_match_id >>
  /\ UNCHANGED << env, start, all_matches, clock, reports, owned_items >>
  /\ UNCHANGED map_vars

\* One iteration of "while time.time() - start_time < max_wait": a poll, then
\* a break or a sleep of one interval or longer
Poll ==
  /\ pc = "poll"
  /\ elapsed < env.max_wait
  /\ \E id \in {None, MatchID} :
       /\ pregame_match_id' = id
       /\ calls' = Append(calls, Call("pregame", id))
       /\ IF id # None
          THEN pc' = "after_poll" /\ elapsed' = elapsed
          ELSE pc' = pc /\ elapsed' \in {elapsed + 1, elapsed + 2}
  /\ UNCHANGED result
  /\ UNCHANGED << env, start, all_matches, clock, reports, owned_items >>
  /\ UNCHANGED map_vars

\* The check after the loop passes for every match id
timed_out_never(id) == FALSE

\* not pregame_match_id
timed_out(id) == id = None

\* After the loop, left by break or because max_wait is over:
\* "if not pregame_match_id: return False"
AfterPoll ==
  /\ \/ pc = "after_poll"
     \/ pc = "poll" /\ elapsed >= env.max_wait
  /\ IF timed_out(pregame_match_id)
     THEN result' = FALSE /\ pc' = "returned"
     ELSE result' = result /\ pc' = "select"
  /\ UNCHANGED << calls, elapsed, pregame_match_id >>
  /\ UNCHANGED << env, start, all_matches, clock, reports, owned_items >>
  /\ UNCHANGED map_vars

\* select_success = select_agent(pregame_match_id, ...): only printed
SelectAgent ==
  /\ pc = "select"
  /\ calls' = Append(calls, Call("select", pregame_match_id))
  /\ pc' = "lock"
  /\ UNCHANGED << result, elapsed, pregame_match_id >>
  /\ UNCHANGED << env, start, all_matches, clock, reports, owned_items >>
  /\ UNCHANGED map_vars

\* The result requires both requests to succeed
locked_and_selected(select_success, lock_success) ==
  select_success /\ lock_success

\* "if lock_success: return True else: return False"
instalock_result(select_success, lock_success) == lock_success

\* lock_success = lock_agent(pregame_match_id, ...), and the return
LockAgent ==
  /\ pc = "lock"
  /\ calls' = Append(calls, Call("lock", pregame_match_id))
  /\ result' = instalock_result(env.select_success, env.lock_success)
  /\ pc' = "returned"
  /\ UNCHANGED << elapsed, pregame_match_id >>
  /\ UNCHANGED << env, start, all_matches, clock, reports, owned_items >>
  /\ UNCHANGED map_vars

NextInstalock ==
  \/ GetAgent
  \/ Authenticate
  \/ Entitlement
  \/ GetPuuid
  \/ Poll
  \/ AfterPoll
  \/ SelectAgent
  \/ LockAgent

SpecInstalock == InitInstalock /\ [][NextInstalock]_vars

(***************************************************************************)
(* get_player_mmr_data of valo_mmr.py and of get_valo_mmr.py               *)
(***************************************************************************)

\* get_valo_mmr.map_mmr_to_henrik as a function of the rating record d, the
\* latest competitive update and act_id, without the two fields it copies
SummaryOf(d, latest, act) ==
  LET current == summary_current(d, latest, act)
      peak == PeakOf(d)
  IN  [ current_rank |->
          get_tier_name(current.tier,
                        get_valo_mmr_season_short(OrEmpty(current.season_id))),
        current_rr |-> current.rr,
        leaderboard_placement |-> Get(current.data, "LeaderboardRank", 0),
        peak_rank |->
          get_tier_name(peak.tier,
                        get_valo_mmr_season_short(OrEmpty(peak.season_id))),
        peak_rr |-> peak.rr,
        peak_act |-> get_valo_mmr_season_short(OrEmpty(peak.season_id)) ]

\* What get_player_mmr returns: None, or the player's MMR document
MmrResponses ==
  { [ok |-> FALSE, seasonal |-> << >>, latest |-> << >>] }
    \cup { [ok |-> TRUE, seasonal |-> d, latest |-> LatestCompetitiveUpdate] :
             d \in Dicts({E9A3}, UpdateInfos, 1) }

\* The module, the region argument, and what the services answer
MmrDataEnvs ==
  [ module : {"valo_mmr", "get_valo_mmr"},
    tokens : {"None", "no_access_token", "ok"},
    entitlement : {"None", "ok"},
    region : { << >>, << "e", "u" >> },
    player_region : { << >>, << "a", "p" >> },
    puuid : {"None", "ok"},
    mmr : MmrResponses ]

InitMmrData ==
  /\ MapIdle
  /\ pc = "mmr_auth"
  /\ env \in MmrDataEnvs
  /\ calls = << >>
  /\ result = << >>
  /\ start = 0
  /\ all_matches = << >>
  /\ elapsed = 0
  /\ pregame_match_id = None
  /\ clock = 0
  /\ reports = << >>
  /\ owned_items = << >>

\* The error response of a failed step
MmrFailure(status, error) ==
  [status |-> status, error |-> error, data |-> << >>]

\* Any token dict passes for an authentication
auth_ok_any_tokens(tokens) == tokens # "None"

\* not (not tokens or not tokens.get("access_token"))
auth_ok(tokens) == tokens = "ok"

\* tokens = cookie_reauth()
MmrAuthenticate ==
  /\ pc = "mmr_auth"
  /\ calls' = Append(calls, "cookie_reauth")
  /\ IF auth_ok(env.tokens)
     THEN result' = result /\ pc' = "mmr_entitlement"
     ELSE result' = MmrFailure(500, "auth_failed") /\ pc' = "returned"
  /\ UNCHANGED << env, start, all_matches, elapsed, pregame_match_id, clock,
                  reports, owned_items >>
  /\ UNCHANGED map_vars

\* entitlement = get_entitlement_token(access_token)
MmrEntitlement ==
  /\ pc = "mmr_entitlement"
  /\ calls' = Append(calls, "entitlement")
  /\ IF env.entitlement = "None"
     THEN result' = MmrFailure(500, "entitlement_failed") /\ pc' = "returned"
     ELSE result' = result /\ pc' = "mmr_region"
  /\ UNCHANGED << env, start, all_matches, elapsed, pregame_match_id, clock,
                  reports, owned_items >>
  /\ UNCHANGED map_vars

\* detected_region = region or get_player_region(...) or "na": a request only
\* if no region was given; its failure is replaced by "na"
MmrRegion ==
  /\ pc = "mmr_region"
  /\ calls' = IF env.region # << >> THEN calls ELSE Append(calls, "region")
  /\ pc' = "mmr_puuid"
  /\ UNCHANGED result
  /\ UNCHANGED << env, start, all_matches, elapsed, pregame_match_id, clock,
                  reports, owned_items >>
  /\ UNCHANGED map_vars

\* puuid = get_puuid_by_name(game_name, tag_line, access_token)
MmrPuuid ==
  /\ pc = "mmr_puuid"
  /\ calls' = Append(calls, "puuid")
  /\ IF env.puuid = "None"
     THEN result' = MmrFailure(404, "player_not_found") /\ pc' = "returned"
     ELSE result' = result /\ pc' = "mmr_fetch"
  /\ UNCHANGED << env, start, all_matches, elapsed, pregame_match_id, clock,
                  reports, owned_items >>
  /\ UNCHANGED map_vars

\* mmr = get_player_mmr(puuid, access_token, entitlement, shard), which asks
\* for the client version first
MmrFetch ==
  /\ pc = "mmr_fetch"
  /\ calls' = calls \o << "client_version", "mmr" >>
  /\ IF ~env.mmr.ok
     THEN result' = MmrFailure(502, "mmr_fetch_failed") /\ pc' = "returned"
     ELSE result' = result /\ pc' = "mmr_map"
  /\ UNCHANGED << env, start, all_matches, elapsed, pregame_match_id, clock,
                  reports, owned_items >>
  /\ UNCHANGED map_vars

\* The rest: valo_mmr fetches the match updates and returns the full report,
\* get_valo_mmr returns the summary for act_id ""
MmrMap ==
  /\ pc = "mmr_map"
  /\ IF env.module = "valo_mmr"
     THEN /\ calls' = Append(calls, "competitiveupdates")
          /\ LET report ==
                   FullReport(env.mmr.seasonal, MatchUpdates, env.mmr.latest)
             IN  result' = [status |-> report.status, error |-> "None",
                            data |-> report.data]
     ELSE /\ calls' = calls
          /\ result' = [status |-> 200, error |-> "None",
                        data |-> SummaryOf(env.mmr.seasonal, env.mmr.latest,
                                           << >>)]
  /\ pc' = "returned"
  /\ UNCHANGED << env, start, all_matches, elapsed, pregame_match_id, clock,
                  reports, owned_items >>
  /\ UNCHANGED map_vars

NextMmrData ==
  \/ MmrAuthenticate
  \/ MmrEntitlement
  \/ MmrRegion
  \/ MmrPuuid
  \/ MmrFetch
  \/ MmrMap

SpecMmrData == InitMmrData /\ [][NextMmrData]_vars

(***************************************************************************)
(* The season catalogs of valo_mmr.py, get_valo_mmr.py and                 *)
(* valo_api_utils.py, looked up for the same season                        *)
(***************************************************************************)

\* SEASON_MAP of valo_api_utils.py (identifiers written as in SEASON_MAP above)
valo_api_utils_SEASON_MAP ==
     (<< "3", "f", "6", "1", "c", "7", "7", "2" >> :> << "e", "1", "a", "1" >>)
  @@ (<< "0", "5", "3", "0", "b", "9", "c", "4" >> :> << "e", "1", "a", "2" >>)
  @@ (<< "4", "6", "e", "a", "6", "1", "6", "6" >> :> << "e", "1", "a", "3" >>)
  @@ (<< "9", "7", "b", "6", "e", "7", "3", "9" >> :> << "e", "2", "a", "1" >>)
  @@ (<< "a", "b", "5", "7", "e", "f", "5", "1" >> :> << "e", "2", "a", "2" >>)
  @@ (<< "5", "2", "e", "9", "7", "4", "9", "a" >> :> << "e", "2", "a", "3" >>)
  @@ (<< "2", "a", "2", "7", "e", "5", "d", "2" >> :> << "e", "3", "a", "1" >>)
  @@ (<< "4", "c", "b", "6", "2", "2", "e", "1" >> :> << "e", "3", "a", "2" >>)
  @@ (<< "a", "1", "6", "9", "5", "5", "a", "5" >> :> << "e", "3", "a", "3" >>)
  @@ (<< "5", "7", "3", "f", "5", "3", "a", "c" >> :> << "e", "4", "a", "1" >>)
  @@ (<< "d", "9", "2", "9", "b", "c", "3", "8" >> :> << "e", "4", "a", "2" >>)
  @@ (<< "3", "e", "4", "7", "2", "3", "0", "a" >> :> << "e", "4", "a", "3" >>)
  @@ (<< "6", "7", "e", "3", "7", "3", "c", "7" >> :> << "e", "5", "a", "1" >>)
  @@ (<< "7", "a", "8", "5", "d", "e", "9", "a" >> :> << "e", "5", "a", "2" >>)
  @@ (<< "a", "c", "a", "2", "9", "5", "9", "5" >> :> << "e", "5", "a", "3" >>)
  @@ (<< "9", "c", "9", "1", "a", "4", "4", "5" >> :> << "e", "6", "a", "1" >>)
  @@ (<< "3", "4", "0", "9", "3", "c", "2", "9" >> :> << "e", "6", "a", "2" >>)
  @@ (<< "2", "d", "e", "5", "4", "2", "3", "b" >> :> << "e", "6", "a", "3" >>)
  @@ (<< "0", "9", "8", "1", "a", "8", "8", "2" >> :> << "e", "7", "a", "1" >>)
  @@ (<< "0", "3", "d", "f", "d", "0", "0", "4" >> :> << "e", "7", "a", "2" >>)
  @@ (<< "4", "4", "0", "1", "f", "9", "f", "d" >> :> << "e", "7", "a", "3" >>)
  @@ (<< "e", "c", "8", "7", "6", "e", "6", "c" >> :> << "e", "8", "a", "1" >>)
  @@ (<< "2", "2", "d", "1", "0", "d", "6", "6" >> :> << "e", "8", "a", "2" >>)
  @@ (<< "4", "5", "3", "9", "c", "a", "c", "3" >> :> << "e", "8", "a", "3" >>)
  @@ (<< "5", "2", "c", "a", "6", "6", "9", "8" >> :> << "e", "9", "a", "1" >>)
  @@ (<< "2", "9", "2", "f", "5", "8", "d", "b" >> :> << "e", "9", "a", "2" >>)
  @@ (<< "d", "c", "d", "e", "7", "3", "4", "6" >> :> << "e", "9", "a", "3" >>)
  @@ (<< "4", "7", "6", "b", "0", "8", "9", "3" >> :> << "v", "2", "5", "a", "1" >>)
  @@ (<< "1", "6", "1", "1", "8", "9", "9", "8" >> :> << "v", "2", "5", "a", "2" >>)
  @@ (<< "a", "e", "f", "2", "3", "7", "a", "0" >> :> << "v", "2", "5", "a", "3" >>)
  @@ (<< "a", "c", "1", "2", "e", "9", "b", "3" >> :> << "v", "2", "5", "a", "4" >>)
  @@ (<< "5", "a", "d", "c", "3", "3", "f", "a" >> :> << "v", "2", "5", "a", "5" >>)
  @@ (<< "4", "c", "4", "b", "8", "c", "f", "f" >> :> << "v", "2", "5", "a", "6" >>)
  @@ (<< "3", "e", "a", "2", "b", "3", "1", "8" >> :> << "v", "2", "6", "a", "1" >>)
  @@ (<< "9", "d", "8", "5", "c", "9", "3", "2" >> :> << "v", "2", "6", "a", "2" >>)
  @@ (<< "c", "e", "2", "7", "8", "3", "e", "8" >> :> << "v", "2", "6", "a", "3" >>)
  @@ (<< "4", "f", "0", "8", "6", "4", "e", "2" >> :> << "v", "2", "6", "a", "4" >>)
  @@ (<< "8", "1", "0", "2", "c", "d", "8", "1" >> :> << "v", "2", "6", "a", "5" >>)
  @@ (<< "d", "8", "1", "6", "f", "4", "2", "6" >> :> << "v", "2", "6", "a", "6" >>)

\* season_short of valo_api_utils.py
valo_api_utils_season_short(season_id) ==
  IF season_id \in DOMAIN valo_api_utils_SEASON_MAP
  THEN valo_api_utils_SEASON_MAP[season_id]
  ELSE IF season_id # << >> THEN lower(Prefix(season_id, 4))
  ELSE Unknown

\* The season identifiers looked up: every key of a catalog, an identifier in
\* no catalog, and ""
LookupIds ==
  DOMAIN SEASON_MAP \cup DOMAIN get_valo_mmr_SEASON_MAP
    \cup DOMAIN valo_api_utils_SEASON_MAP
    \cup { << "F", "F", "0", "0", "a", "b", "c", "d" >>, << >> }

\* The tiers labelled: unranked, and the tiers whose label depends on the
\* episode
LookupTiers == {0, 21, 24, 27}

InitCatalogs ==
  /\ MapIdle
  /\ pc = "lookup"
  /\ env \in [season_id : LookupIds, tier_id : LookupTiers]
  /\ calls = << >>
  /\ result = << >>
  /\ start = 0
  /\ all_matches = << >>
  /\ elapsed = 0
  /\ pregame_match_id = None
  /\ clock = 0
  /\ reports = << >>
  /\ owned_items = << >>

\* The three modules label the season, and the two reports a tier of it
LookupSeason ==
  /\ pc = "lookup"
  /\ result' =
       [ valo_mmr |-> season_short(env.season_id),
         get_valo_mmr |-> get_valo_mmr_season_short(env.season_id),
         valo_api_utils |-> valo_api_utils_season_short(env.season_id),
         full_report_key |-> sort_key_season(env.season_id),
         full_report_tier |->
           get_tier_name(env.tier_id, season_short(env.season_id)),
         summary_tier |->
           get_tier_name(env.tier_id,
                         get_valo_mmr_season_short(env.season_id)) ]
  /\ pc' = "returned"
  /\ UNCHANGED << env, calls, start, all_matches, elapsed, pregame_match_id,
                  clock, reports, owned_items >>
  /\ UNCHANGED map_vars

SpecCatalogs == InitCatalogs /\ [][LookupSeason]_vars

(***************************************************************************)
(* Properties of the report                                                *)
(***************************************************************************)

Seasons == 1..Len(seasonal)

Sid(k) == seasonal[k][1]

Data(k) == seasonal[k][2]

\* The tier ids of a season's WinsByTier that have a nonzero win count
WonTiers(data) ==
  LET wins_by_tier == Get(data, "WinsByTier", << >>)
  IN  { int(t) : t \in { k \in DOMAIN wins_by_tier : wins_by_tier[k] > 0 } }

\* The highest tier a season has a win at, 0 when there is none
HighestWonTier(data) == IF WonTiers(data) = {} THEN 0 ELSE Max(WonTiers(data))

\* WinsByTier is empty or absent
NoWinsByTier(data) == DOMAIN Get(data, "WinsByTier", << >>) = {}

\* The ids of the seasonal breakdown of the returned report
ListedIds == { output.data.seasonal[j].season.id : j \in 1..Len(output.data.seasonal) }

\* C1: for a rating record with no seasons map_mmr_to_henrik signals a failure
\* (MissingRatingData) instead of returning a success report of zero values.
C1_EmptyRecordSignalsMissingRatingData ==
  (pc = "done" /\ seasonal = << >>) =>
    /\ output.status # 200
    /\ ~( /\ output.data.peak.tier.id = 0 /\ output.data.peak.rr = 0
          /\ output.data.current.tier.id = 0 /\ output.data.current.rr = 0
          /\ output.data.seasonal = << >> )

\* C2: the reported peak tier is the maximum, over all seasons, of the highest
\* tier id with a nonzero win count in WinsByTier (0 when there is none).
C2_PeakTierIsHighestWonTier ==
  pc = "done" =>
    output.data.peak.tier.id = Max({0} \cup { HighestWonTier(Data(k)) : k \in Seasons })

\* C3, first half: a season whose maximum won tier is strictly greater than the
\* running peak replaces the peak tier, season and rating.
C3_Replaces ==
  ( /\ pc = "peak" /\ i <= Len(seasonal)
    /\ HighestWonTier(Data(i)) > peak_tier )
  => ( /\ peak_tier' = HighestWonTier(Data(i))
       /\ peak_season_id' = Sid(i)
       /\ peak_rr' = Get(Data(i), "RankedRating", 0) )

\* C3, second half: among the seasons tied at the final peak tier the reported
\* peak season is one with the highest end-of-season rating, and peak.rr is
\* that rating.
C3_TieBreak ==
  pc = "done" =>
    LET tied == { k \in Seasons : /\ WonTiers(Data(k)) # {}
                                  /\ HighestWonTier(Data(k)) = output.data.peak.tier.id }
        best == Max({ Get(Data(k), "RankedRating", 0) : k \in tied })
    IN  tied # {} =>
          /\ output.data.peak.rr = best
          /\ \E k \in tied : /\ output.data.peak.season.id = Sid(k)
                             /\ Get(Data(k), "RankedRating", 0) = best

\* C3: in the peak scan a season with a strictly greater maximum won tier
\* replaces the peak, and ties at the final peak tier go to a season with the
\* highest end-of-season rating.
C3_PeakScanReplacesAndBreaksTies == [][C3_Replaces /\ C3_TieBreak']_vars

\* C4: the reported peak season, tier and rating are the same for every order
\* in which the seasons of the rating record are visited.
C4_PeakIndependentOfOrder ==
  pc = "done" =>
    \A p \in Permutations(Seasons) :
      LET peak == PeakOf([k \in Seasons |-> seasonal[p[k]]])
      IN  /\ output.data.peak.tier.id = peak.tier
          /\ output.data.peak.rr = peak.rr
          /\ output.data.peak.season.id = OrEmpty(peak.season_id)

\* C5: a season whose WinsByTier is empty or absent is never the peak season,
\* neither during the scan nor in the returned report.
C5_NoWinsNeverPeak ==
  \A k \in Seasons :
    NoWinsByTier(Data(k)) =>
      /\ peak_season_id # Sid(k)
      /\ pc = "done" => output.data.peak.season.id # Sid(k)

\* C5 happens: the report is returned for a record in which a season without
\* wins ends at a higher tier and rating than the reported peak of another season.
C5_Witness ==
  /\ pc = "done"
  /\ output.data.peak.season.id # << >>
  /\ \E k \in Seasons :
       /\ NoWinsByTier(Data(k))
       /\ Get(Data(k), "CompetitiveTier", 0) > output.data.peak.tier.id
       /\ Get(Data(k), "RankedRating", 0) > output.data.peak.rr

\* Season k is the single season with the highest won tier
SingleHighest(k) ==
  /\ WonTiers(Data(k)) # {}
  /\ \A j \in Seasons \ {k} :
       WonTiers(Data(j)) = {} \/ HighestWonTier(Data(j)) < HighestWonTier(Data(k))

\* C6: a season absent from SEASON_MAP that is the single season with the
\* highest won tier is the reported peak season and is not in the seasonal
\* breakdown.
C6_UnmappedSeasonPeakNotListed ==
  pc = "done" =>
    \A k \in Seasons :
      (Sid(k) \notin DOMAIN SEASON_MAP /\ SingleHighest(k)) =>
        /\ output.data.peak.season.id = Sid(k)
        /\ Sid(k) \notin ListedIds

\* C7: the seasonal breakdown holds exactly the seasons whose short code parses
\* as (episode, act), each once.
C7_SeasonalExactlyTheParsedSeasons ==
  pc = "done" =>
    \A k \in Seasons :
      Cardinality({ j \in 1..Len(output.data.seasonal) :
                      output.data.seasonal[j].season.id = Sid(k) })
        = IF ParsesEpisodeAct(season_short(Sid(k))) THEN 1 ELSE 0

\* C8: the seasonal breakdown is strictly ascending in (episode, act), compared
\* as integers; no two entries share a pair.
C8_SeasonalStrictlyAscending ==
  pc = "done" =>
    \A a, b \in 1..Len(output.data.seasonal) :
      a < b =>
        /\ ParsesEpisodeAct(output.data.seasonal[a].season.short)
        /\ ParsesEpisodeAct(output.data.seasonal[b].season.short)
        /\ TupleLess(EpisodeAct(output.data.seasonal[a].season.short),
                     EpisodeAct(output.data.seasonal[b].season.short))

\* The chronological codes of the catalog
ValidCodes == { SEASON_MAP[s] : s \in DOMAIN SEASON_MAP }

\* C9: the placeholder season_short returns for an identifier not in SEASON_MAP
\* is no chronological code of the catalog and does not parse as (episode, act).
C9_PlaceholderIsNoChronologicalCode ==
  pc = "done" =>
    \A k \in Seasons :
      Sid(k) \notin DOMAIN SEASON_MAP =>
        /\ season_short(Sid(k)) \notin ValidCodes
        /\ ~ParsesEpisodeAct(season_short(Sid(k)))

\* The scheme of a short code: legacy exactly when it parses with episode < 5
SchemeOf(short) ==
  IF ParsesEpisodeAct(short) /\ EpisodeAct(short)[1] < 5 THEN "base" ELSE "ascendant"

\* C10: the ranking scheme reported for the peak season and for every listed
\* season is "base" exactly when its short code parses with an episode below 5,
\* and "ascendant" otherwise (so also when the short code does not parse).
C10_RankingSchemaByEpisode ==
  pc = "done" =>
    /\ output.data.peak.ranking_schema = SchemeOf(output.data.peak.season.short)
    /\ \A j \in 1..Len(output.data.seasonal) :
         output.data.seasonal[j].ranking_schema
           = SchemeOf(output.data.seasonal[j].season.short)

\* The short code starts with "e" and an integer episode follows
HasEpisode(short) ==
  startswith(short, "e") /\ IsInt(split(Suffix(short, 1), "a")[1])

\* That episode
Episode(short) == int(split(Suffix(short, 1), "a")[1])

\* C11: under a season of episode 5 or later every tier id 3..27 gets a label
\* that is not "Unknown" and is the label of no other id in 3..27; under a
\* season of an episode before 5 the ids 21, 22, 23, 24 get "Immortal 1",
\* "Immortal 2", "Immortal 3", "Radiant" and every other id its TIER_MAP label.
C11_TierLabelsByScheme ==
  (pc = "returned" /\ HasEpisode(call_season_short)) =>
    IF Episode(call_season_short) >= 5
    THEN call_tier_id \in 3..27 =>
           /\ call_name # "Unknown"
           /\ \A other \in (3..27) \ {call_tier_id} :
                get_tier_name(other, call_season_short) # call_name
    ELSE call_name =
           CASE call_tier_id = 21 -> "Immortal 1"
             [] call_tier_id = 22 -> "Immortal 2"
             [] call_tier_id = 23 -> "Immortal 3"
             [] call_tier_id = 24 -> "Radiant"
             [] OTHER -> Get(TIER_MAP, call_tier_id, "Unknown")

\* C11 happens: tier 24 was looked up under a season of episode 4 and is
\* "Radiant".
C11_Witness ==
  /\ pc = "returned"
  /\ HasEpisode(call_season_short) /\ Episode(call_season_short) = 4
  /\ call_tier_id = 24
  /\ call_name = "Radiant"

\* The labels of the two tables and "Unknown"
Labels == { TIER_MAP[t] : t \in DOMAIN TIER_MAP } \cup {"Unknown"}

\* C12: get_tier_name returns a label for every tier id and every short code
\* string, never raising, and "Unknown" for every tier id outside 0..27.
C12_TierNameTotal ==
  pc = "returned" =>
    /\ call_name \in Labels
    /\ call_tier_id \notin 0..27 => call_name = "Unknown"

\* C12 happens: a tier id above 27 was looked up under a short code that
\* starts with "e" and has no integer episode.
C12_Witness ==
  /\ pc = "returned"
  /\ startswith(call_season_short, "e") /\ ~HasEpisode(call_season_short)
  /\ call_tier_id > 27
  /\ call_name = "Unknown"

\* The seasons of the record whose short code parses as (episode, act)
Parsed == { k \in Seasons : ParsesEpisodeAct(season_short(Sid(k))) }

\* Season k is the chronologically latest season of the record
ChronologicallyLatest(k) ==
  /\ k \in Parsed
  /\ \A j \in Parsed : ~TupleLess(EpisodeAct(season_short(Sid(k))),
                                   EpisodeAct(season_short(Sid(j))))

\* The latest competitive update names a season of the rating record
UpdateNamesSeason ==
  \E k \in Seasons : Get(latest_competitive_update, "SeasonID", None) = Sid(k)

\* C13: when no latest competitive update names a season of the record, the
\* current season is the latest season of the record by (episode, act), and
\* current tier and rating are its CompetitiveTier and RankedRating.
C13_FallbackIsChronologicallyLatest ==
  (pc = "done" /\ ~UpdateNamesSeason /\ Parsed # {}) =>
    \E k \in Seasons :
      /\ ChronologicallyLatest(k)
      /\ current_season_id = Sid(k)
      /\ output.data.current.tier.id = Get(Data(k), "CompetitiveTier", 0)
      /\ output.data.current.rr = Get(Data(k), "RankedRating", 0)

\* The numeric estimate of a tier and a rating
Estimate(tier, rating) ==
  IF tier >= 3 THEN (tier - 3) * 100 + (rating % 100) ELSE 0

\* C15: when the latest competitive update names a season of the record, the
\* current season is that season, and current tier, rating and estimate are
\* those of the update's TierAfterUpdate and RankedRatingAfterUpdate.
C15_LatestUpdateHasPriority ==
  (pc = "done" /\ UpdateNamesSeason) =>
    /\ current_season_id = latest_competitive_update.SeasonID
    /\ output.data.current.tier.id = latest_competitive_update.TierAfterUpdate
    /\ output.data.current.rr = latest_competitive_update.RankedRatingAfterUpdate
    /\ output.data.current.elo =
         Estimate(latest_competitive_update.TierAfterUpdate,
                  latest_competitive_update.RankedRatingAfterUpdate)

RECURSIVE SumOfWins(_, _)
SumOfWins(wins_by_tier, keys) ==
  IF keys = {} THEN 0
  ELSE LET k == CHOOSE x \in keys : TRUE
       IN  wins_by_tier[k] + SumOfWins(wins_by_tier, keys \ {k})

\* The entries of the seasonal breakdown of the returned report
Listed == 1..Len(output.data.seasonal)

\* C17: in every entry of the seasonal breakdown act_wins has, for each tier
\* key of the season's WinsByTier, as many entries of that tier as its win
\* count, as many entries in all as the sum of the counts, ordered by tier id
\* non-increasing, and is empty for an empty or absent WinsByTier.
C17_ActWinsOnePerWin ==
  pc = "done" =>
    \A j \in Listed :
      LET wins_by_tier ==
            Get(Item(seasonal, output.data.seasonal[j].season.id), "WinsByTier", << >>)
          act_wins == output.data.seasonal[j].act_wins
      IN  /\ \A t \in DOMAIN wins_by_tier :
               Cardinality({ k \in 1..Len(act_wins) : act_wins[k].id = int(t) })
                 = wins_by_tier[t]
          /\ Len(act_wins) = SumOfWins(wins_by_tier, DOMAIN wins_by_tier)
          /\ \A k, l \in 1..Len(act_wins) :
               k < l => act_wins[k].id >= act_wins[l].id
          /\ DOMAIN wins_by_tier = {} => act_wins = << >>

\* C17 happens: a listed season won once at tier 15 and twice at tier 21, and
\* its act_wins are the tiers 21, 21, 15.
C17_Witness ==
  /\ pc = "done"
  /\ \E j \in Listed :
       /\ DOMAIN Get(Item(seasonal, output.data.seasonal[j].season.id),
                     "WinsByTier", << >>) = { << "1", "5" >>, << "2", "1" >> }
       /\ Len(output.data.seasonal[j].act_wins) = 3
       /\ output.data.seasonal[j].act_wins[1].id = 21
       /\ output.data.seasonal[j].act_wins[3].id = 15

\* The wall-clock time of report generation, as an updated_at
Now == [now |-> TRUE, ms |-> 0]

\* The updated_at of a MatchStartTime
At(ts_ms) == [now |-> FALSE, ms |-> ts_ms]

\* The entries of the match-update list that belong to season sid
UpdatesOf(sid) == { k \in 1..Len(updates) : Get(updates[k], "SeasonID", None) = sid }

\* The maximum MatchStartTime among the match updates of season sid, the
\* wall-clock time when no match update belongs to it
LatestUpdateTime(sid) ==
  IF UpdatesOf(sid) = {} THEN Now
  ELSE At(Max({ updates[k].MatchStartTime : k \in UpdatesOf(sid) }))

\* C18: in every entry of the seasonal breakdown leaderboard_placement is null
\* exactly when the season's LeaderboardRank is 0; for a positive rank
\* updated_at is the maximum MatchStartTime among the match updates of that
\* season, and the wall-clock time when no match update belongs to it.
C18_SeasonLeaderboardTimestamp ==
  pc = "done" =>
    \A j \in Listed :
      LET sid == output.data.seasonal[j].season.id
          rank == Get(Item(seasonal, sid), "LeaderboardRank", 0)
          placement == output.data.seasonal[j].leaderboard_placement
      IN  /\ placement = << >> <=> rank = 0
          /\ rank > 0 =>
               /\ placement[1].rank = rank
               /\ placement[1].updated_at = LatestUpdateTime(sid)

\* C18 happens: a listed season with a positive rank has two match updates, the
\* earlier one first in the list, next to an update of another season.
C18_Witness ==
  /\ pc = "done"
  /\ Len(updates) = 3
  /\ updates[1].SeasonID # updates[2].SeasonID
  /\ \E j \in Listed :
       /\ output.data.seasonal[j].leaderboard_placement # << >>
       /\ Cardinality(UpdatesOf(output.data.seasonal[j].season.id)) = 2
       /\ \E k \in UpdatesOf(output.data.seasonal[j].season.id) :
            /\ \A l \in UpdatesOf(output.data.seasonal[j].season.id) : k <= l
            /\ At(updates[k].MatchStartTime)
                 # output.data.seasonal[j].leaderboard_placement[1].updated_at

\* C19: when the current standing has a positive leaderboard rank, the
\* updated_at of current.leaderboard_placement is the maximum MatchStartTime
\* among the match updates of the current season, and the wall-clock time only
\* when no match update belongs to the current season.
C19_CurrentLeaderboardTimestamp ==
  (pc = "done" /\ Get(current_data, "LeaderboardRank", 0) > 0) =>
    /\ output.data.current.leaderboard_placement # << >>
    /\ output.data.current.leaderboard_placement[1].updated_at
         = LatestUpdateTime(current_season_id)

\* C20: the returned report is the report of every permutation of the
\* match-update list, for the same rating record and latest competitive update.
C20_ReportIndependentOfUpdateOrder ==
  pc = "done" =>
    \A p \in Permutations(1..Len(updates)) :
      output = FullReport(seasonal, [k \in 1..Len(updates) |-> updates[p[k]]],
                          latest_competitive_update)

\* C20 happens: the report is returned for a list of three match updates that
\* is not sorted by time, with a leaderboard timestamp taken from the list.
C20_Witness ==
  /\ pc = "done"
  /\ Len(updates) = 3
  /\ updates[1].MatchStartTime < updates[2].MatchStartTime
  /\ updates[3].MatchStartTime < updates[2].MatchStartTime
  /\ \E j \in Listed :
       /\ output.data.seasonal[j].leaderboard_placement # << >>
       /\ output.data.seasonal[j].leaderboard_placement[1].updated_at # Now

\* C14: in the summary report without act_id, when the latest competitive
\* update names a season of the record, current tier and rating are the
\* update's TierAfterUpdate and RankedRatingAfterUpdate, and leaderboard
\* placement is the LeaderboardRank of that season's aggregate record.
C14_SummaryPrefersLatestUpdate ==
  (pc = "done" /\ act_id = << >> /\ UpdateNamesSeason) =>
    /\ current_season_id = latest_competitive_update.SeasonID
    /\ current_tier = latest_competitive_update.TierAfterUpdate
    /\ output.current_rank =
         get_tier_name(latest_competitive_update.TierAfterUpdate,
                       get_valo_mmr_season_short(latest_competitive_update.SeasonID))
    /\ output.current_rr = latest_competitive_update.RankedRatingAfterUpdate
    /\ output.leaderboard_placement =
         Get(Item(seasonal, latest_competitive_update.SeasonID), "LeaderboardRank", 0)

\* C14 happens: the summary is returned, without act_id, for an update naming
\* a season whose aggregate tier and rating differ from the update's and whose
\* leaderboard rank is positive, next to another season.
C14_Witness ==
  /\ pc = "done" /\ act_id = << >> /\ UpdateNamesSeason
  /\ Len(seasonal) = 2
  /\ LET data == Item(seasonal, latest_competitive_update.SeasonID)
     IN  /\ data.CompetitiveTier # latest_competitive_update.TierAfterUpdate
         /\ data.RankedRating # latest_competitive_update.RankedRatingAfterUpdate
         /\ data.LeaderboardRank > 0
         /\ output.leaderboard_placement = data.LeaderboardRank

\* C21: map_mmr_to_henrik never aborts because of one season's fields: a
\* season with absent keys or a non-integer WinsByTier key gets defaults, and
\* the function still returns a report, so no run ends in a raised exception.
C21_MalformedSeasonNeverAborts == pc # "raised"

\* C22: map_mmr_to_henrik is a pure function of its arguments: two
\* invocations with the same rating record and the same match-update list
\* return the same report.
C22_SameArgumentsSameReport ==
  Len(reports) = Invocations => reports[1] = reports[2]

\* C23: get_competitive_updates never returns more than limit match updates,
\* for every positive limit and every service that sends at most 200 entries
\* per page.
C23_AtMostLimitUpdates ==
  (pc = "returned" /\ env.limit > 0) => Len(result) <= env.limit

\* The requests of match-update pages issued so far, in order
PageRequests == SelectSeq(calls, LAMBDA c : c.request = "competitiveupdates")

\* ceil(limit / 200)
CeilPages(limit) == (limit + page - 1) \div page

\* A response that stops the loop: not 200, or fewer than 200 entries
Stops(c) == c.status # 200 \/ Len(c.matches) < page

\* The pages received with status 200, concatenated in request order
RECURSIVE Concatenation(_)
Concatenation(cs) ==
  IF cs = << >> THEN << >>
  ELSE (IF Head(cs).status = 200 THEN Head(cs).matches ELSE << >>)
         \o Concatenation(Tail(cs))

\* The windows are [0,200), [200,400), ... in order, at most ceil(limit/200)
\* of them, none after a response that stops the loop, and what is returned
\* is the concatenation of the pages received
FetchWindows ==
  /\ Len(PageRequests) <= CeilPages(env.limit)
  /\ \A k \in 1..Len(PageRequests) :
       /\ PageRequests[k].startIndex = (k - 1) * page
       /\ PageRequests[k].endIndex = k * page
       /\ k < Len(PageRequests) => ~Stops(PageRequests[k])
  /\ pc = "returned" =>
       /\ result = Concatenation(PageRequests)
       /\ \/ Len(PageRequests) = CeilPages(env.limit)
          \/ Stops(PageRequests[Len(PageRequests)])

\* C27: get_competitive_updates always terminates after at most
\* ceil(limit / 200) requests: it requests the windows [0,200), [200,400), ...
\* in increasing order, stops at the first non-200 response or the first page
\* with fewer than 200 entries, and returns the concatenation, in request
\* order, of the pages received.
C27_FetchTerminatesWithinLimit == []FetchWindows /\ <>(pc = "returned")

\* A fetch of two requests that stopped at a short second page
C27_Witness ==
  /\ pc = "returned"
  /\ Len(PageRequests) = 2
  /\ PageRequests[2].status = 200
  /\ Len(PageRequests[2].matches) = 199
  /\ Len(result) = page + 199

\* The requests for owned items issued so far
OwnedRequests == SelectSeq(calls, LAMBDA c : c.request = "owned_items")

\* C24: when authentication, entitlement, player info and region succeeded
\* and the owned-items request fails for every requested category, the result
\* has success = False and error_code = "FETCH_FAILED".
C24_FetchFailureIsReported ==
  ( /\ pc = "returned"
    /\ OwnedRequests # << >>
    /\ \A k \in 1..Len(OwnedRequests) : OwnedRequests[k].status # 200 )
  => (result.success = FALSE /\ result.error_code = "FETCH_FAILED")

\* The positions of the requests of one kind in the log
CallsOf(request) == { k \in 1..Len(calls) : calls[k].request = request }

\* A poll has returned a pre-game match id
MatchFound ==
  \E k \in CallsOf("pregame") : calls[k].match_id # None

\* C25: instalock returns True exactly when a pre-game match id was found and
\* lock_agent succeeded, whether or not select_agent succeeded, and False on
\* every earlier failure (agent, authentication, entitlement, PUUID, timeout).
C25_TrueIffLocked ==
  pc = "returned" =>
    /\ result = (MatchFound /\ CallsOf("lock") # {} /\ env.lock_success)
    /\ (env.agent # "ok" \/ env.tokens = "None"
          \/ env.entitlement_token = "None" \/ env.puuid = "None"
          \/ ~MatchFound) => result = FALSE

\* instalock returned True although select_agent failed
C25_Witness ==
  /\ pc = "returned"
  /\ result = TRUE
  /\ ~env.select_success
  /\ CallsOf("select") # {}

\* C29: select_agent and lock_agent are called only after a poll has returned
\* a pre-game match id, select_agent before lock_agent and each at most once;
\* when the loop ends by exceeding max_wait without a match id, neither is
\* ever called.
C29_SelectThenLockAfterMatchFound ==
  /\ Cardinality(CallsOf("select")) <= 1
  /\ Cardinality(CallsOf("lock")) <= 1
  /\ \A k \in CallsOf("select") \cup CallsOf("lock") :
       /\ \E j \in CallsOf("pregame") : j < k /\ calls[j].match_id # None
       /\ calls[k].match_id # None
  /\ \A k \in CallsOf("lock") : \E j \in CallsOf("select") : j < k
  /\ (pc \in {"select", "lock"} \/ CallsOf("select") # {}) => MatchFound
  /\ (pc = "returned" /\ ~MatchFound) =>
       CallsOf("select") \cup CallsOf("lock") = {}

\* The loop ended by exceeding max_wait after polls without a match id, and
\* instalock returned without selecting or locking
C29_Witness ==
  /\ pc = "returned"
  /\ elapsed >= env.max_wait
  /\ CallsOf("pregame") # {}
  /\ ~MatchFound
  /\ CallsOf("select") \cup CallsOf("lock") = {}

\* The latest competitive update is an update of the selected current season
UpdateOfCurrentSeason ==
  /\ latest_competitive_update # << >>
  /\ Get(latest_competitive_update, "SeasonID", << >>) = current_season_id

\* C26: in the summary every part of the current standing refers to one
\* season: the current tier and rating are the selected season's, either its
\* aggregate fields or the values of a latest update that names this very
\* season, as the label scheme and the leaderboard placement are.
C26_CurrentStandingOfOneSeason ==
  (pc = "done" /\ seasonal # << >>) =>
    /\ output.leaderboard_placement = Get(current_data, "LeaderboardRank", 0)
    /\ current_data = Item(seasonal, current_season_id)
    /\ \/ /\ UpdateOfCurrentSeason
          /\ output.current_rr =
               Get(latest_competitive_update, "RankedRatingAfterUpdate", 0)
          /\ current_tier = Get(latest_competitive_update, "TierAfterUpdate", 0)
       \/ /\ output.current_rr = Get(current_data, "RankedRating", 0)
          /\ current_tier = Get(current_data, "CompetitiveTier", 0)

\* The place of a request in the order authentication, entitlement, (region),
\* PUUID lookup, MMR fetch, (match updates)
StepRank(request) ==
  CASE request = "cookie_reauth" -> 1
    [] request = "entitlement" -> 2
    [] request = "region" -> 3
    [] request = "puuid" -> 4
    [] request = "client_version" -> 5
    [] request = "mmr" -> 6
    [] request = "competitiveupdates" -> 7

\* The request issued last
LastCall == calls[Len(calls)]

\* The outcome the first failing step determines
FirstFailure ==
  IF env.tokens # "ok" THEN << 500, "auth_failed", "cookie_reauth" >>
  ELSE IF env.entitlement = "None"
  THEN << 500, "entitlement_failed", "entitlement" >>
  ELSE IF env.puuid = "None" THEN << 404, "player_not_found", "puuid" >>
  ELSE IF ~env.mmr.ok THEN << 502, "mmr_fetch_failed", "mmr" >>
  ELSE << 200, "None", "none" >>

\* C28: get_player_mmr_data performs authentication, entitlement, PUUID
\* lookup and MMR fetch in this order; the first failing step alone
\* determines the outcome (auth_failed/500, entitlement_failed/500,
\* player_not_found/404, mmr_fetch_failed/502), and no request of a later
\* step is issued after a step has failed.
C28_FirstFailureDecides ==
  /\ \A j, k \in 1..Len(calls) :
       j < k => StepRank(calls[j]) < StepRank(calls[k])
  /\ pc = "returned" =>
       /\ result.status = FirstFailure[1]
       /\ result.error = FirstFailure[2]
       /\ FirstFailure[1] # 200 => LastCall = FirstFailure[3]
       /\ FirstFailure[1] = 200 =>
            {"cookie_reauth", "entitlement", "puuid", "mmr"} \subseteq
              { calls[k] : k \in 1..Len(calls) }

\* The PUUID lookup failed after authentication, entitlement and region
\* detection, although the later MMR fetch would have failed too
C28_Witness ==
  /\ pc = "returned"
  /\ result.error = "player_not_found"
  /\ calls = << "cookie_reauth", "entitlement", "region", "puuid" >>
  /\ ~env.mmr.ok

\* The season is mapped by valo_mmr.SEASON_MAP and by the catalog of the
\* other two modules
MappedByBoth ==
  /\ env.season_id \in DOMAIN SEASON_MAP
  /\ \/ env.season_id \in DOMAIN get_valo_mmr_SEASON_MAP
     \/ env.season_id \in DOMAIN valo_api_utils_SEASON_MAP

\* C30: the season catalogs agree: a season identifier mapped by both
\* valo_mmr.SEASON_MAP and valo_api_utils.SEASON_MAP / get_valo_mmr.SEASON_MAP
\* has the same short code in each, so the full report and the summary label
\* the season and its tiers identically.
C30_CatalogsAgree ==
  (pc = "returned" /\ MappedByBoth) =>
    /\ result.valo_mmr = result.get_valo_mmr
    /\ result.valo_mmr = result.valo_api_utils
    /\ result.full_report_tier = result.summary_tier

====
